---- MODULE Spec2Model ----
(***************************************************************************)
(* Model of the incremental lyrics enrichment-and-caching pipeline of      *)
(* music_search_mcp: cmd_lyrics_enrich (cli.py) over the JSON lyrics cache *)
(* (lyrics_cache.py) and the lyrics provider client (lyrics_client.py).    *)
(*                                                                         *)
(* Strings that the code normalises (track and artist names, cache keys)   *)
(* are sequences of one-character strings, so that strip() and lower()     *)
(* are computed, not assumed.  Lyrics texts are opaque strings.            *)
(***************************************************************************)
EXTENDS Integers, Sequences, FiniteSets, TLC

----------------------------------------------------------------------------
(* Bounds of the model *)

\* longest track list held by the local store
MaxTracks == 2
\* largest value given to -n/--limit and to --new
MaxLimit == 1
\* number of enrichment commands issued one after the other
MaxRuns == 2

----------------------------------------------------------------------------
(* Python values *)

\* Python's None for an optional integer argument (argparse default=None)
None == -1
\* Python's None for an optional lyrics text
NoText == "<None>"
\* bool(x) of an optional integer: None and 0 are falsy
Truthy(x) == x # None /\ x # 0

Min(a, b) == IF a < b THEN a ELSE b

\* seq[:n] for n >= 0
Take(seq, n) == SubSeq(seq, 1, Min(n, Len(seq)))

----------------------------------------------------------------------------
(* str.strip() and str.lower() on sequences of characters *)

IsSpace(c) == c = " "

LowerChar(c) ==
    CASE c = "A" -> "a"
      [] c = "B" -> "b"
      [] c = "X" -> "x"
      [] OTHER -> c

Lower(s) == [i \in 1..Len(s) |-> LowerChar(s[i])]

RECURSIVE LStrip(_)
LStrip(s) == IF s # <<>> /\ IsSpace(Head(s)) THEN LStrip(Tail(s)) ELSE s

RECURSIVE RStrip(_)
RStrip(s) ==
    IF s # <<>> /\ IsSpace(s[Len(s)]) THEN RStrip(SubSeq(s, 1, Len(s) - 1)) ELSE s

Strip(s) == RStrip(LStrip(s))

\* mutant of _make_key: the key is not lower-cased
MakeKeyNoLower(track_name, artist_name) ==
    Strip(track_name) \o <<"|", "|">> \o Strip(artist_name)

\* lyrics_cache._make_key
_make_key(track_name, artist_name) ==
    Lower(Strip(track_name)) \o <<"|", "|">> \o Lower(Strip(artist_name))

----------------------------------------------------------------------------
(* Python dict (insertion-ordered): a sequence of <<key, value>> pairs     *)
(* with pairwise distinct keys                                             *)

DictKeys(d) == {d[i][1] : i \in 1..Len(d)}

DictHas(d, k) == \E i \in 1..Len(d) : d[i][1] = k

\* d[k] for a key that is present
DictAt(d, k) == d[CHOOSE i \in 1..Len(d) : d[i][1] = k][2]

\* mutant of DictSet: the mapping is replaced by the one new entry
DictSetFresh(d, k, v) == << <<k, v>> >>

\* d[k] = v: overwrite in place, or append a new key
DictSet(d, k, v) ==
    IF DictHas(d, k)
    THEN [i \in 1..Len(d) |-> IF d[i][1] = k THEN <<k, v>> ELSE d[i]]
    ELSE Append(d, <<k, v>>)

----------------------------------------------------------------------------
(* The cache file data/lyrics_cache.json.  Its content is either absent,   *)
(* the JSON text of a mapping, or a text that does not decode (what        *)
(* open(..., "w") leaves before the write has finished).                   *)

FileAbsent == [state |-> "absent", doc |-> <<>>]
FileTruncated == [state |-> "corrupt", doc |-> <<>>]

\* json.dumps(cache) written in full by write_text
JsonFile(d) == [state |-> "json", doc |-> d]

\* lyrics_cache._load_cache: a missing or undecodable file is {}
_load_cache(file) == IF file.state = "json" THEN file.doc ELSE <<>>

\* the (absent) result of dict.get on a missing key
NoEntry ==
    [track_name |-> <<>>, artist_name |-> <<>>, plain_lyrics |-> NoText,
     synced_lyrics |-> NoText, instrumental |-> FALSE, lyrics_found |-> FALSE,
     present |-> FALSE]

\* mutant of get_cached_lyrics: the lookup never finds an entry
GetCachedNever(file, track_name, artist_name) == NoEntry

\* lyrics_cache.get_cached_lyrics: the entry, or None (present = FALSE)
get_cached_lyrics(file, track_name, artist_name) ==
    LET cache == _load_cache(file)
        key == _make_key(track_name, artist_name)
    IN IF DictHas(cache, key) THEN DictAt(cache, key) ELSE NoEntry

\* mutant of CacheEntry: lyrics_found is not copied from the result
CacheEntryLosesFound(track_name, artist_name, lyrics_data) ==
    [track_name |-> track_name, artist_name |-> artist_name,
     plain_lyrics |-> lyrics_data.plain_lyrics,
     synced_lyrics |-> lyrics_data.synced_lyrics,
     instrumental |-> lyrics_data.instrumental,
     lyrics_found |-> FALSE,
     present |-> TRUE]

\* the entry save_lyrics_to_cache builds from a result
CacheEntry(track_name, artist_name, lyrics_data) ==
    [track_name |-> track_name, artist_name |-> artist_name,
     plain_lyrics |-> lyrics_data.plain_lyrics,
     synced_lyrics |-> lyrics_data.synced_lyrics,
     instrumental |-> lyrics_data.instrumental,
     lyrics_found |-> lyrics_data.lyrics_found,
     present |-> TRUE]

\* mutant of save_lyrics_to_cache: the mapping is written back unchanged
SaveNothing(file, track_name, artist_name, lyrics_data) == _load_cache(file)

\* lyrics_cache.save_lyrics_to_cache, up to the call of _save_cache: the
\* mapping that is about to be written
save_lyrics_to_cache(file, track_name, artist_name, lyrics_data) ==
    DictSet(_load_cache(file), _make_key(track_name, artist_name),
            CacheEntry(track_name, artist_name, lyrics_data))

\* mutant of CountedWithLyrics: every entry with lyrics_found is counted
CountedWithLyricsAny(v) == v.lyrics_found

\* lyrics_cache.py:84-86: the tests of the three sums of get_cache_stats
CountedWithLyrics(v) == v.lyrics_found /\ ~v.instrumental

CountedInstrumental(v) == v.instrumental

CountedNotFound(v) == ~v.lyrics_found

\* lyrics_cache.get_cache_stats
get_cache_stats(file) ==
    LET cache == _load_cache(file)
        Count(P(_)) == Cardinality({i \in 1..Len(cache) : P(cache[i][2])})
    IN [total |-> Len(cache), with_lyrics |-> Count(CountedWithLyrics),
        instrumental |-> Count(CountedInstrumental),
        not_found |-> Count(CountedNotFound)]

----------------------------------------------------------------------------
(* Songs of the local store.  A Spotify record has a list "artists", a     *)
(* Last.fm record a single "artist"; the field a record lacks is empty.    *)

SpotifySong(name, artists, album) ==
    [name |-> name, artists |-> artists, artist |-> <<>>, album |-> album]

LastfmSong(name, artist, album) ==
    [name |-> name, artists |-> <<>>, artist |-> artist, album |-> album]

\* "A" by "X"; " a" by "x " (the same lookup key); "b" with no artist
SpotifySongs ==
    { SpotifySong(<<"A">>, << <<"X">> >>, "Album One"),
      SpotifySong(<<" ", "a">>, << <<"x", " ">>, <<"B">> >>, ""),
      SpotifySong(<<"b">>, <<>>, "Album Two") }

LastfmSongs ==
    { LastfmSong(<<"A">>, <<"X">>, "Album One"),
      LastfmSong(<<"b">>, <<>>, "") }

\* cli._get_artist_name
_get_artist_name(song, source) ==
    IF source = "spotify"
    THEN IF song.artists # <<>> THEN song.artists[1] ELSE <<>>
    ELSE song.artist

SongKey(song, source) == _make_key(song.name, _get_artist_name(song, source))

\* the track lists a store can hold: any list of Spotify liked songs, and a
\* list of Last.fm scrobbles that cmd_load has deduplicated
SeqsUpTo(S, n) == UNION {[1..k -> S] : k \in 0..n}

NoDupKeys(list, source) ==
    \A i, j \in 1..Len(list) :
        SongKey(list[i], source) = SongKey(list[j], source) => i = j

SpotifyLists == SeqsUpTo(SpotifySongs, MaxTracks)

LastfmLists == {l \in SeqsUpTo(LastfmSongs, MaxTracks) : NoDupKeys(l, "lastfm")}

----------------------------------------------------------------------------
(* The lyrics provider (LRCLIB "get" endpoint) as seen by get_lyrics       *)

\* lyrics_client.get_lyrics: what one call can end as.  "not_found" is the
\* 404 answer (None); "error" is any exception (timeout, 5xx, bad JSON)
ProviderReplies ==
    { [kind |-> "not_found", plain_lyrics |-> NoText, synced_lyrics |-> NoText,
       instrumental |-> FALSE],
      [kind |-> "error", plain_lyrics |-> NoText, synced_lyrics |-> NoText,
       instrumental |-> FALSE],
      [kind |-> "found", plain_lyrics |-> "la la", synced_lyrics |-> "[00:01] la la",
       instrumental |-> FALSE],
      [kind |-> "found", plain_lyrics |-> NoText, synced_lyrics |-> NoText,
       instrumental |-> TRUE] }

\* the enriched record {**song, plain_lyrics, synced_lyrics, instrumental,
\* lyrics_found}
Enriched(song, plain, synced, instr, found_) ==
    [song |-> song, plain_lyrics |-> plain, synced_lyrics |-> synced,
     instrumental |-> instr, lyrics_found |-> found_]

\* mutant of fetch_lyrics_for_songs: a failed call is not turned into None
FetchAlwaysFound(song, reply) ==
    Enriched(song, reply.plain_lyrics, reply.synced_lyrics, reply.instrumental, TRUE)

\* lyrics_client.fetch_lyrics_for_songs([song])[0] for one reply of get_lyrics
fetch_lyrics_for_songs(song, reply) ==
    LET lyrics == reply.kind = "found"
    IN Enriched(song,
                IF lyrics THEN reply.plain_lyrics ELSE NoText,
                IF lyrics THEN reply.synced_lyrics ELSE NoText,
                IF lyrics THEN reply.instrumental ELSE FALSE,
                lyrics)

\* cmd_lyrics_enrich, the cache-hit branch: {**song, <the cached fields>}
FromCache(song, cached) ==
    Enriched(song, cached.plain_lyrics, cached.synced_lyrics,
             cached.instrumental, cached.lyrics_found)

----------------------------------------------------------------------------
(* State *)

VARIABLES
    songs,          \* the track list _load_songs_from_store returns
    source,         \* its field mapping: "spotify" or "lastfm"
    cacheFile,      \* content of data/lyrics_cache.json
    pc,             \* position of the running command; "idle" between commands
    runNo,          \* number of enrichment commands started so far
    args,           \* [force, limit, new_only] of the current (or last) command
    work,           \* the local list "songs" of cmd_lyrics_enrich
    idx,            \* 1-based position of the loop in work
    enriched,       \* the result list
    counters,       \* [found, instrumental, cached_hits, api_lookups]
    result,         \* the result of the provider call of the current track
    pending,        \* the mapping _save_cache is writing
    outcome,        \* how the current (or last) command ended
    trace,          \* history of the current command (not program state):
                    \* provider calls returned, per-track origin, I/O done
    prev,           \* history: summary of the command before the current one
    notFoundKeys,   \* history: keys whose last stored lookup was not-found
    store,          \* data/spotify_songs.json and data/lastfm_scrobbles.json
    storeOp,        \* the save of a snapshot in progress, and its history
    index,          \* the ChromaDB collection: id -> [document, metadata]
    report,         \* what the last store, status or index command reported
    dedup,          \* one call of _deduplicate_songs: its input and its results
    request,        \* one call of lastfm_client._lastfm_request
    fetch           \* cmd_load for Last.fm: fetch_scrobbles and what follows

\* the variables of cmd_lyrics_enrich
enrichVars ==
    <<songs, source, cacheFile, pc, runNo, args, work, idx, enriched, counters,
      result, pending, outcome, trace, prev, notFoundKeys>>

\* the variables cmd_lyrics_enrich never touches
\* the variables of the Last.fm client
fetchVars == <<request, fetch>>

otherVars == <<store, storeOp, index, report, dedup, fetchVars>>

vars == <<enrichVars, otherVars>>

NoArgs == [force |-> FALSE, limit |-> None, new_only |-> None]

NoCounters == [found |-> 0, instrumental |-> 0, cached_hits |-> 0, api_lookups |-> 0]

NoResult == Enriched(SpotifySong(<<>>, <<>>, ""), NoText, NoText, FALSE, FALSE)

\* calls: keys of the provider calls that returned; via: "cache" or "api" per
\* enriched record; the numbers count what the command did so far; reply: how
\* get_lyrics ended for the track in hand
NoTrace ==
    [calls |-> <<>>, via |-> <<>>, store_loads |-> 0, cache_reads |-> 0,
     key_reads |-> 0, cache_puts |-> 0, start_entries |-> 0, start_cache |-> <<>>,
     stopped_at |-> "none", reply |-> "none"]

NoPrev ==
    [outcome |-> "none", args |-> NoArgs, enriched |-> <<>>, calls |-> <<>>,
     stopped_at |-> "none"]

\* what the cache file holds before the first command of a behaviour: no
\* file, or what an earlier enrichment of "A" by "X" has left
SeedCache ==
    << <<_make_key(<<"A">>, <<"X">>),
         CacheEntry(<<"A">>, <<"X">>,
                    Enriched(SpotifySong(<<"A">>, << <<"X">> >>, "Album One"),
                             "old la", "[00:01] old la", FALSE, TRUE))>> >>

InitialCaches == {FileAbsent, JsonFile(SeedCache)}

\* values of -n/--limit and of --new
OptionValues == {None} \cup (0..MaxLimit)

\* the two track sources, as song_store names them
Sources == {"spotify", "lastfm"}

\* the (absent) result of _load_store: None (present = FALSE)
NoSnapshot ==
    [present |-> FALSE, source |-> "none", fetched_at |-> 0, count |-> 0,
     songs |-> <<>>]

NoStore == [s \in Sources |-> FileAbsent]

\* pc: "idle" or "writing"; data: the snapshot being written to the file of
\* source; clock: the time of the last save; last: per source, the list
\* given to the last save that returned (history)
NoStoreOp ==
    [pc |-> "idle", source |-> "none", data |-> NoSnapshot, clock |-> 0,
     last |-> [s \in Sources |-> [saved |-> FALSE, songs |-> <<>>]]]

NoReport == [cmd |-> "none"]

NoDedup ==
    [pc |-> "none", source |-> "spotify", songs |-> <<>>, unique |-> <<>>,
     again |-> <<>>]

\* pc: "idle", "attempting", "sleeping", "returned" or "raised"; attempt and
\* delay: the loop variables; slept: the delays waited so far; got: how the
\* attempts made so far ended (history)
NoRequest ==
    [pc |-> "idle", attempt |-> 0, delay |-> 0, slept |-> <<>>, got |-> <<>>]

\* pc: position of cmd_load; history: the scrobbles the account holds, newest
\* first; limit, page, scrobbles: the variables of fetch_scrobbles; tracks:
\* the tracks of the page in hand not appended yet; pages: number of pages
\* whose tracks are all appended; interrupted: Ctrl+C was caught by
\* fetch_scrobbles; previous: the snapshot file when the command started
\* (history); offset: the loop variable of fetch_liked_songs; rate_limited:
\* fetch_liked_songs left its loop on HTTP 429; asked: the page numbers (or
\* offsets) requested so far (history)
NoFetch ==
    [pc |-> "idle", history |-> <<>>, limit |-> None, page |-> 1, scrobbles |-> <<>>,
     tracks |-> <<>>, pages |-> 0, interrupted |-> FALSE, previous |-> FileAbsent,
     offset |-> 0, rate_limited |-> FALSE, asked |-> <<>>]

FetchAtRest ==
    /\ request = NoRequest
    /\ fetch = NoFetch

\* the store, the index and the reports before any command touched them
OthersAtRest ==
    /\ store = NoStore
    /\ storeOp = NoStoreOp
    /\ index = <<>>
    /\ report = NoReport
    /\ dedup = NoDedup
    /\ FetchAtRest

Init ==
    /\ \E src \in {"spotify", "lastfm"} :
         /\ source = src
         /\ songs \in (IF src = "spotify" THEN SpotifyLists ELSE LastfmLists)
    /\ cacheFile \in InitialCaches
    /\ pc = "idle"
    /\ runNo = 0
    /\ args = NoArgs
    /\ work = <<>>
    /\ idx = 1
    /\ enriched = <<>>
    /\ counters = NoCounters
    /\ result = NoResult
    /\ pending = <<>>
    /\ outcome = "none"
    /\ trace = NoTrace
    /\ prev = NoPrev
    /\ notFoundKeys = {}
    /\ OthersAtRest

----------------------------------------------------------------------------
(* cmd_lyrics_enrich *)

\* mutant of PolicyConflict: the options are tested for truth, not for None
PolicyConflictTruthy(limit, new_only) == Truthy(limit) /\ Truthy(new_only)

\* cli.py:304  if limit is not None and new_only is not None
PolicyConflict(limit, new_only) == limit # None /\ new_only # None

\* mutant of ApplyLimit: the slice keeps one song too many
ApplyLimitOffByOne(list, limit, new_only) ==
    IF Truthy(limit) /\ ~Truthy(new_only) THEN Take(list, limit + 1) ELSE list

\* cli.py:314  if limit and not new_only: songs = songs[:limit]
ApplyLimit(list, limit, new_only) ==
    IF Truthy(limit) /\ ~Truthy(new_only) THEN Take(list, limit) ELSE list

\* mutant of FilterNew: the --new limit is applied before the cache filter
FilterNewSliceFirst(list, src, file, new_only) ==
    LET Uncached(song) ==
            ~get_cached_lyrics(file, song.name, _get_artist_name(song, src)).present
    IN SelectSeq(IF Len(list) > new_only THEN Take(list, new_only) ELSE list, Uncached)

\* cli.py:326-339  the uncached songs, cut to the first new_only of them
FilterNew(list, src, file, new_only) ==
    LET Uncached(song) ==
            ~get_cached_lyrics(file, song.name, _get_artist_name(song, src)).present
        uncached_songs == SelectSeq(list, Uncached)
    IN IF Len(uncached_songs) > new_only THEN Take(uncached_songs, new_only)
       ELSE uncached_songs

\* mutant of CacheLookup: --force is ignored
CacheLookupIgnoringForce(force, file, track_name, artist_name) ==
    get_cached_lyrics(file, track_name, artist_name)

\* cli.py:365  cached = None if force else get_cached_lyrics(track_name, artist)
CacheLookup(force, file, track_name, artist_name) ==
    IF force THEN NoEntry ELSE get_cached_lyrics(file, track_name, artist_name)

\* mutant of Count: an instrumental result is counted as found as well
CountTwice(c, r) ==
    IF r.lyrics_found
    THEN IF r.instrumental
         THEN [c EXCEPT !.instrumental = @ + 1, !.found = @ + 1]
         ELSE [c EXCEPT !.found = @ + 1]
    ELSE c

\* cli.py:384-388  the found / instrumental counters
Count(c, r) ==
    IF r.lyrics_found
    THEN IF r.instrumental
         THEN [c EXCEPT !.instrumental = @ + 1]
         ELSE [c EXCEPT !.found = @ + 1]
    ELSE c

Summary ==
    [outcome |-> outcome, args |-> args, enriched |-> enriched,
     calls |-> trace.calls, stopped_at |-> trace.stopped_at]

\* cli.py:299-348: the command starts; a policy conflict ends it at once
StartRun(force, limit, new_only) ==
    /\ pc = "idle"
    /\ runNo < MaxRuns
    /\ runNo' = runNo + 1
    /\ prev' = Summary
    /\ args' = [force |-> force, limit |-> limit, new_only |-> new_only]
    /\ idx' = 1
    /\ enriched' = <<>>
    /\ counters' = NoCounters
    /\ result' = NoResult
    /\ pending' = <<>>
    /\ IF PolicyConflict(limit, new_only)
       THEN /\ outcome' = "usage_error"
            /\ pc' = "idle"
            /\ work' = <<>>
            /\ trace' = NoTrace
       ELSE /\ outcome' = "running"
            /\ work' = ApplyLimit(songs, limit, new_only)
            /\ trace' = [NoTrace EXCEPT !.store_loads = 1, !.cache_reads = 1,
                            !.start_entries = get_cache_stats(cacheFile).total,
                            !.start_cache = _load_cache(cacheFile)]
            /\ pc' = IF Truthy(new_only) /\ ~force THEN "filter" ELSE "top"
    /\ UNCHANGED <<songs, source, cacheFile, notFoundKeys>>
    /\ UNCHANGED otherVars

\* cli.py:325-342: the --new pre-filter
Filter ==
    /\ pc = "filter"
    /\ work' = FilterNew(work, source, cacheFile, args.new_only)
    /\ trace' = [trace EXCEPT !.cache_reads = @ + Len(work),
                              !.key_reads = @ + Len(work)]
    /\ IF work' = <<>>
       THEN pc' = "idle" /\ outcome' = "nothing_new"
       ELSE pc' = "top" /\ outcome' = outcome
    /\ UNCHANGED <<songs, source, cacheFile, runNo, args, idx, enriched, counters,
                   result, pending, prev, notFoundKeys>>
    /\ UNCHANGED otherVars

\* cli.py:358-375: the next track; a cache hit completes it
Lookup ==
    /\ pc = "top"
    /\ idx <= Len(work)
    /\ LET song == work[idx]
           artist == _get_artist_name(song, source)
           cached == CacheLookup(args.force, cacheFile, song.name, artist)
           reads == IF args.force THEN 0 ELSE 1
       IN IF cached.present
          THEN /\ enriched' = Append(enriched, FromCache(song, cached))
               /\ counters' = Count([counters EXCEPT !.cached_hits = @ + 1],
                                    FromCache(song, cached))
               /\ idx' = idx + 1
               /\ pc' = "top"
               /\ trace' = [trace EXCEPT !.via = Append(@, "cache"),
                                         !.cache_reads = @ + reads,
                                         !.key_reads = @ + reads]
          ELSE /\ counters' = [counters EXCEPT !.api_lookups = @ + 1]
               /\ pc' = "fetch"
               /\ trace' = [trace EXCEPT !.cache_reads = @ + reads,
                                         !.key_reads = @ + reads]
               /\ UNCHANGED <<enriched, idx>>
    /\ UNCHANGED <<songs, source, cacheFile, runNo, args, work, result, pending,
                   outcome, prev, notFoundKeys>>
    /\ UNCHANGED otherVars

\* cli.py:378: the provider call returns (any reply of get_lyrics)
ProviderReturns ==
    /\ pc = "fetch"
    /\ \E reply \in ProviderReplies :
         /\ result' = fetch_lyrics_for_songs(work[idx], reply)
         /\ trace' = [trace EXCEPT !.calls = Append(@, SongKey(work[idx], source)),
                                   !.reply = reply.kind]
    /\ pc' = "fetched"
    /\ UNCHANGED <<songs, source, cacheFile, runNo, args, work, idx, enriched,
                   counters, pending, outcome, prev, notFoundKeys>>
    /\ UNCHANGED otherVars

\* cli.py:380, lyrics_cache.py:63-65 and 32-33: the mapping is loaded and
\* updated, and write_text opens the file for writing, which empties it
BeginSave ==
    /\ pc = "fetched"
    /\ pending' = save_lyrics_to_cache(cacheFile, work[idx].name,
                                       _get_artist_name(work[idx], source), result)
    /\ cacheFile' = FileTruncated
    /\ pc' = "writing"
    /\ trace' = [trace EXCEPT !.cache_reads = @ + 1]
    /\ UNCHANGED <<songs, source, runNo, args, work, idx, enriched, counters,
                   result, outcome, prev, notFoundKeys>>
    /\ UNCHANGED otherVars

\* lyrics_cache.py:33-36: the whole JSON text is written and the file closed
FinishSave ==
    /\ pc = "writing"
    /\ cacheFile' = JsonFile(pending)
    /\ pending' = <<>>
    /\ pc' = "saved"
    /\ trace' = [trace EXCEPT !.cache_puts = @ + 1]
    /\ notFoundKeys' =
         IF result.lyrics_found
         THEN notFoundKeys \ {SongKey(work[idx], source)}
         ELSE notFoundKeys \cup {SongKey(work[idx], source)}
    /\ UNCHANGED <<songs, source, runNo, args, work, idx, enriched, counters,
                   result, outcome, prev>>
    /\ UNCHANGED otherVars

\* mutant of AppendResult: the loop does not move on to the next track
AppendResultStays ==
    /\ pc = "saved"
    /\ enriched' = Append(enriched, result)
    /\ counters' = Count(counters, result)
    /\ trace' = [trace EXCEPT !.via = Append(@, "api"), !.reply = "none"]
    /\ result' = NoResult
    /\ idx' = idx
    /\ pc' = "top"
    /\ UNCHANGED <<songs, source, cacheFile, runNo, args, work, pending, outcome,
                   prev, notFoundKeys>>
    /\ UNCHANGED otherVars

\* cli.py:382-388: the result is appended and counted
AppendResult ==
    /\ pc = "saved"
    /\ enriched' = Append(enriched, result)
    /\ counters' = Count(counters, result)
    /\ trace' = [trace EXCEPT !.via = Append(@, "api"), !.reply = "none"]
    /\ result' = NoResult
    /\ idx' = idx + 1
    /\ pc' = "top"
    /\ UNCHANGED <<songs, source, cacheFile, runNo, args, work, pending, outcome,
                   prev, notFoundKeys>>
    /\ UNCHANGED otherVars

\* cli.py:397-404: the loop is over, the summary is reported
Finish ==
    /\ pc = "top"
    /\ idx > Len(work)
    /\ pc' = "idle"
    /\ outcome' = "completed"
    /\ UNCHANGED <<songs, source, cacheFile, runNo, args, work, idx, enriched,
                   counters, result, pending, trace, prev, notFoundKeys>>
    /\ UNCHANGED otherVars

\* cli.py:390-395: KeyboardInterrupt is raised wherever the main thread is
\* inside the try block; a file that write_text has opened stays as it is
Interrupt ==
    /\ pc \in {"top", "fetch", "fetched", "writing", "saved"}
    /\ pc = "top" => idx <= Len(work)
    /\ pc' = "idle"
    /\ outcome' = "interrupted"
    /\ trace' = [trace EXCEPT !.stopped_at = pc, !.reply = "none"]
    /\ result' = NoResult
    /\ pending' = <<>>
    /\ UNCHANGED <<songs, source, cacheFile, runNo, args, work, idx, enriched,
                   counters, prev, notFoundKeys>>
    /\ UNCHANGED otherVars

\* cli.py:325-342 lies outside the try block: KeyboardInterrupt in the
\* pre-filter leaves the command with a traceback
InterruptFilter ==
    /\ pc = "filter"
    /\ pc' = "idle"
    /\ outcome' = "crashed"
    /\ trace' = [trace EXCEPT !.stopped_at = pc]
    /\ UNCHANGED <<songs, source, cacheFile, runNo, args, work, idx, enriched,
                   counters, result, pending, prev, notFoundKeys>>
    /\ UNCHANGED otherVars

Start == \E f \in BOOLEAN, l \in OptionValues, n \in OptionValues : StartRun(f, l, n)

Next ==
    \/ Start
    \/ Filter
    \/ Lookup
    \/ ProviderReturns
    \/ BeginSave
    \/ FinishSave
    \/ AppendResult
    \/ Finish
    \/ Interrupt
    \/ InterruptFilter

Spec == Init /\ [][Next]_vars

----------------------------------------------------------------------------
(* Vocabulary of the properties *)

\* a command that got past the option check
Worked == outcome \in {"running", "completed", "interrupted", "nothing_new", "crashed"}

\* the command has ended
Ended == pc = "idle" /\ runNo >= 1

\* the mapping the cache file decodes to
Cache == _load_cache(cacheFile)

ArtistOf(song) == _get_artist_name(song, source)

\* two (name, artist) spellings denote the same track: equal after trimming
\* and lower-casing each part
SameTrack(name1, artist1, name2, artist2) ==
    /\ Lower(Strip(name1)) = Lower(Strip(name2))
    /\ Lower(Strip(artist1)) = Lower(Strip(artist2))

\* the entries of a mapping stored for the track of a song
EntriesFor(d, song) ==
    {i \in 1..Len(d) :
        SameTrack(d[i][2].track_name, d[i][2].artist_name, song.name, ArtistOf(song))}

\* the lyrics fields of an enriched record and of a cache entry agree
SameLyrics(r, e) ==
    /\ r.plain_lyrics = e.plain_lyrics
    /\ r.synced_lyrics = e.synced_lyrics
    /\ r.instrumental = e.instrumental
    /\ r.lyrics_found = e.lyrics_found

SameLyricsLists(a, b) ==
    /\ Len(a) = Len(b)
    /\ \A j \in 1..Len(a) : a[j].song = b[j].song /\ SameLyrics(a[j], b[j])

\* where the command is, or where it was when it was interrupted
Position == IF pc = "idle" THEN trace.stopped_at ELSE pc

\* a provider call has returned for the current track and is not yet appended
InHand == IF Position \in {"fetched", "writing", "saved"} THEN 1 ELSE 0

\* the result of the current track has been put and is not yet appended
PutInHand == IF Position = "saved" THEN 1 ELSE 0

NumVia(kind) == Cardinality({j \in 1..Len(trace.via) : trace.via[j] = kind})

NoDuplicates(seq) == \A i, j \in 1..Len(seq) : seq[i] = seq[j] => i = j

----------------------------------------------------------------------------
(* C1 *)

\* C1 as stated: for every policy with force = false, when a run has
\* completed and the same command is run again to its end, the second run
\* makes no provider call and yields the same enriched list as the first.
C1_IdempotentAnyPolicy ==
    ( /\ Ended
      /\ outcome \in {"completed", "nothing_new"}
      /\ prev.outcome = "completed"
      /\ prev.args = args
      /\ ~args.force )
    => /\ trace.calls = <<>>
       /\ SameLyricsLists(enriched, prev.enriched)

\* C1 amended: the same, for the policies in which --new is not given.
C1_Idempotent ==
    ( /\ Ended
      /\ outcome \in {"completed", "nothing_new"}
      /\ prev.outcome = "completed"
      /\ prev.args = args
      /\ ~args.force
      /\ args.new_only = None )
    => /\ trace.calls = <<>>
       /\ SameLyricsLists(enriched, prev.enriched)

\* a second complete run of a capless, non-forced command whose first run
\* looked two tracks up at the provider
C1_Witness ==
    /\ Ended
    /\ outcome = "completed"
    /\ prev.outcome = "completed"
    /\ prev.args = args
    /\ ~args.force
    /\ args.new_only = None
    /\ Len(prev.calls) >= 1
    /\ Len(enriched) = 2
    /\ counters.cached_hits = 2

----------------------------------------------------------------------------
(* C2 *)

\* C2 as stated: when a run that started on an empty cache has been
\* interrupted after N tracks were processed, the cache holds exactly N
\* entries, one per processed track and equal to that track's result.  (A
\* track whose put is complete counts as processed.)
C2_NoDataLossOnInterrupt ==
    ( /\ Ended
      /\ outcome = "interrupted"
      /\ trace.start_entries = 0 )
    => LET stored == PutInHand
       IN /\ Len(Cache) = Len(enriched) + stored
          /\ \A j \in 1..Len(enriched) :
                /\ EntriesFor(Cache, enriched[j].song) # {}
                /\ \A i \in EntriesFor(Cache, enriched[j].song) :
                      SameLyrics(enriched[j], Cache[i][2])

----------------------------------------------------------------------------
(* C3 *)

\* C3: whenever the loop is at the cache lookup or in the provider call of a
\* track, every provider call that returned earlier in the run has been put:
\* the puts completed equal the calls returned, the file decodes, and the
\* result of the preceding track, if it came from the provider, is the entry
\* stored for it.
C3_PersistBeforeNext ==
    ( /\ outcome = "running"
      /\ pc \in {"top", "fetch"} )
    => /\ trace.cache_puts = Len(trace.calls)
       /\ ( Len(enriched) >= 1 /\ trace.via[Len(enriched)] = "api" )
          => LET r == enriched[Len(enriched)]
             IN /\ cacheFile.state = "json"
                /\ EntriesFor(Cache, r.song) # {}
                /\ \A i \in EntriesFor(Cache, r.song) : SameLyrics(r, Cache[i][2])

\* the provider call of the second track is in flight after the first track
\* was looked up at the provider
C3_Witness ==
    /\ pc = "fetch"
    /\ idx = 2
    /\ trace.via = <<"api">>

----------------------------------------------------------------------------
(* C4 *)

\* C4: when the previous run was interrupted between two tracks (after the
\* cache put of one and before the lookup of the next) and the current run
\* is not forced, no key whose provider call returned in the previous run is
\* looked up at the provider again, and if the previous run was not forced
\* either, the calls of both runs are for pairwise distinct keys.
C4_NoDuplicateCallOnResume ==
    ( /\ prev.outcome = "interrupted"
      /\ prev.stopped_at \in {"top", "saved"}
      /\ Worked
      /\ ~args.force )
    => /\ \A i \in 1..Len(trace.calls), j \in 1..Len(prev.calls) :
             trace.calls[i] # prev.calls[j]
       /\ pc = "fetch" =>
             \A j \in 1..Len(prev.calls) : SongKey(work[idx], source) # prev.calls[j]
       /\ ~prev.args.force => NoDuplicates(prev.calls \o trace.calls)

\* a non-forced run completes the work of a run that was interrupted after
\* its first provider call had been stored
C4_Witness ==
    /\ prev.outcome = "interrupted"
    /\ prev.stopped_at = "top"
    /\ Len(prev.calls) = 1
    /\ ~args.force
    /\ outcome = "completed"
    /\ Len(trace.calls) = 1
    /\ counters.cached_hits = 1

----------------------------------------------------------------------------
(* C5 *)

\* C5 as stated: in a run that is not forced the provider is never called
\* for a key whose last stored lookup ended as not-found.
C5_NotFoundPersists ==
    ( /\ pc = "fetch"
      /\ ~args.force )
    => SongKey(work[idx], source) \notin notFoundKeys

----------------------------------------------------------------------------
(* C6 *)

\* C6: in a run that is not forced, a provider call is made for a track only
\* when the cache holds no entry for that track under any spelling, a track
\* served from the cache has an entry whose lyrics fields are those of its
\* result, and each track looked up at the provider got exactly one call.
C6_MissThenHit ==
    ( /\ outcome = "running"
      /\ ~args.force )
    => /\ pc = "fetch" => EntriesFor(Cache, work[idx]) = {}
       /\ ( pc = "top" /\ Len(enriched) >= 1 /\ trace.via[Len(enriched)] = "cache" )
          => LET r == enriched[Len(enriched)]
             IN /\ EntriesFor(Cache, r.song) # {}
                /\ \A i \in EntriesFor(Cache, r.song) : SameLyrics(r, Cache[i][2])
       /\ Len(trace.calls) = NumVia("api") + InHand
       /\ counters.cached_hits = NumVia("cache")

\* a track is served from an entry that was stored under another spelling of
\* its name
C6_Witness ==
    /\ outcome = "running"
    /\ ~args.force
    /\ pc = "top"
    /\ Len(enriched) >= 1
    /\ trace.via[Len(enriched)] = "cache"
    /\ \E i \in EntriesFor(Cache, enriched[Len(enriched)].song) :
          Cache[i][2].track_name # enriched[Len(enriched)].song.name

----------------------------------------------------------------------------
(* C7 *)

\* C7: a command given both -n/--limit and --new, whatever their values, has
\* ended as a usage error without loading the store, reading or writing the
\* cache, or calling the provider.
C7_PolicyConflictRejected ==
    ( /\ runNo >= 1
      /\ args.limit # None
      /\ args.new_only # None )
    => /\ outcome = "usage_error"
       /\ pc = "idle"
       /\ trace.store_loads = 0
       /\ trace.cache_reads = 0
       /\ trace.cache_puts = 0
       /\ trace.calls = <<>>
       /\ counters.api_lookups = 0
       /\ enriched = <<>>

\* the rejected command had --limit 0, and the cache was not empty
C7_Witness ==
    /\ outcome = "usage_error"
    /\ args.limit = 0
    /\ args.new_only = 1
    /\ Len(Cache) >= 1

----------------------------------------------------------------------------
(* C8 *)

\* C8: in a forced run no track is served from the cache and no per-track
\* cache lookup is made: every processed track had exactly one provider call,
\* and at the loop boundary the entry stored for the track just processed is
\* its new result.
C8_ForceBypassesCache ==
    ( /\ Worked
      /\ args.force )
    => /\ trace.key_reads = 0
       /\ counters.cached_hits = 0
       /\ \A j \in 1..Len(trace.via) : trace.via[j] = "api"
       /\ Len(trace.calls) = Len(enriched) + InHand
       /\ trace.cache_puts = Len(enriched) + PutInHand
       /\ ( pc = "top" /\ Len(enriched) >= 1 )
          => LET r == enriched[Len(enriched)]
             IN /\ EntriesFor(Cache, r.song) # {}
                /\ \A i \in EntriesFor(Cache, r.song) : SameLyrics(r, Cache[i][2])

\* a forced run has replaced an entry that was in the cache when it started
\* by a result with another lyrics_found
C8_Witness ==
    /\ args.force
    /\ pc = "top"
    /\ Len(enriched) = 1
    /\ \E i \in EntriesFor(trace.start_cache, enriched[1].song) :
          trace.start_cache[i][2].lyrics_found # enriched[1].lyrics_found

----------------------------------------------------------------------------
(* C9 *)

\* C9: with -n/--limit c >= 1 and no --new, the list processed is the first
\* min(c, length) tracks of the store in order; the loop never goes beyond
\* it, a completed run has enriched exactly these tracks, and per-track cache
\* reads, provider calls and cache puts are at most that many.
C9_Cap ==
    ( /\ Worked
      /\ args.limit >= 1
      /\ args.new_only = None )
    => LET m == Min(args.limit, Len(songs))
       IN /\ Len(work) = m
          /\ \A j \in 1..Len(work) : work[j] = songs[j]
          /\ idx <= m + 1
          /\ Len(enriched) <= m
          /\ \A j \in 1..Len(enriched) : enriched[j].song = songs[j]
          /\ outcome = "completed" => Len(enriched) = m
          /\ trace.key_reads <= m
          /\ Len(trace.calls) <= m
          /\ trace.cache_puts <= m

\* a completed run with a cap below the length of the list, whose only track
\* was a cache hit
C9_Witness ==
    /\ outcome = "completed"
    /\ args.limit = 1
    /\ args.new_only = None
    /\ Len(songs) = 2
    /\ Len(enriched) = 1
    /\ counters.cached_hits = 1

----------------------------------------------------------------------------
(* C10 *)

\* positions of the store's tracks without an entry when the command started
UncachedAtStart ==
    {j \in 1..Len(songs) : EntriesFor(trace.start_cache, songs[j]) = {}}

\* the first n of them
FirstUncached(n) ==
    {j \in UncachedAtStart : Cardinality({u \in UncachedAtStart : u < j}) < n}

\* C10: with --new n, n >= 1, and no --force, once the pre-filter is done
\* the list processed is the first min(n, number of uncached tracks) tracks,
\* in store order, that had no cache entry when the command started; a
\* completed run has enriched exactly these, and when there is none the
\* command ends without a provider call.
C10_NewOnly ==
    ( /\ Worked
      /\ pc # "filter"
      /\ outcome # "crashed"
      /\ args.new_only >= 1
      /\ ~args.force )
    => LET picked == FirstUncached(args.new_only)
           Rank(j) == Cardinality({u \in picked : u < j}) + 1
       IN /\ Len(work) = Min(args.new_only, Cardinality(UncachedAtStart))
          /\ \A j \in picked : work[Rank(j)] = songs[j]
          /\ \A k \in 1..Len(enriched) : enriched[k].song = work[k]
          /\ outcome = "completed" => Len(enriched) = Len(work)
          /\ picked = {} => outcome = "nothing_new" /\ trace.calls = <<>>
          /\ outcome = "nothing_new" => picked = {}

\* a completed --new 1 run over two tracks, the first of which was cached
\* when it started: only the second was processed
C10_Witness ==
    /\ outcome = "completed"
    /\ args.new_only = 1
    /\ ~args.force
    /\ Len(songs) = 2
    /\ UncachedAtStart = {2}
    /\ Len(enriched) = 1
    /\ enriched[1].song = songs[2]

----------------------------------------------------------------------------
(* C11 *)

\* the provider call of the track in hand ended as 404 or as an exception
CallFailed == trace.reply \in {"not_found", "error"}

\* C11: when the provider call of a track ends as not-found or as an error,
\* the result of the track has lyrics_found = false and instrumental = false
\* and the command is still running; once its put is done the cache holds
\* exactly that result under the key of the track, and the loop can go on to
\* the next track.  Every result that came from the provider without lyrics
\* is in the result list with instrumental = false, and a command that has
\* made a provider call never ends as a crash or a usage error.
C11_ProviderFailureIsNoError ==
    /\ ( pc \in {"fetched", "writing", "saved"} /\ CallFailed )
       => /\ ~result.lyrics_found
          /\ ~result.instrumental
          /\ result.plain_lyrics = NoText
          /\ outcome = "running"
    /\ ( pc = "saved" /\ CallFailed )
       => /\ cacheFile.state = "json"
          /\ EntriesFor(Cache, work[idx]) # {}
          /\ \A i \in EntriesFor(Cache, work[idx]) : SameLyrics(result, Cache[i][2])
          /\ ENABLED AppendResult
    /\ \A j \in 1..Len(enriched) :
          ( trace.via[j] = "api" /\ ~enriched[j].lyrics_found )
          => ~enriched[j].instrumental
    /\ trace.calls # <<>> => outcome \in {"running", "completed", "interrupted"}

\* the call of the second track has failed with an error and its result is
\* stored, after the call of the first track had failed too
C11_Witness ==
    /\ pc = "saved"
    /\ trace.reply = "error"
    /\ Len(enriched) = 1
    /\ trace.via[1] = "api"
    /\ ~enriched[1].lyrics_found
    /\ Len(Cache) = 2

----------------------------------------------------------------------------
(* C12 *)

\* C12 as stated: a command that Ctrl+C has stopped, at whatever position,
\* has ended as an interrupted run (result list kept, counters reported),
\* never as a crash.
C12_InterruptIsAnOutcome ==
    ( Ended /\ trace.stopped_at # "none" )
    => /\ outcome = "interrupted"
       /\ Len(enriched) = Len(trace.via)

----------------------------------------------------------------------------
(* C13 *)

\* C13 as stated (its second half): an interrupt never takes effect between
\* the return of a provider call and the put of its result, nor while the
\* cache file is being written.
C13_InterruptAtSafePoint ==
    ( Ended /\ outcome = "interrupted" )
    => trace.stopped_at \notin {"fetched", "writing"}

----------------------------------------------------------------------------
(* C14 *)

\* C14 as stated: the process can stop while _save_cache is writing; in that
\* state too the file decodes to a mapping that holds, unchanged, every entry
\* that was stored before this put.
C14_CacheDurable ==
    pc = "writing"
    => \A i \in 1..Len(pending) :
          pending[i][1] # SongKey(work[idx], source)
          => /\ DictHas(Cache, pending[i][1])
             /\ DictAt(Cache, pending[i][1]) = pending[i][2]

----------------------------------------------------------------------------
(* C15 *)

\* the keys of the track list that have an entry in the mapping d
CachedKeys(d) == {SongKey(songs[i], source) : i \in 1..Len(songs)} \cap DictKeys(d)

AllKeys == {SongKey(songs[i], source) : i \in 1..Len(songs)}

\* C15 as stated, in the form a finite run refutes: an interrupted run that
\* is not forced and has completed the put of at least one track that was not
\* cached ends with more keys of the list cached than it started with (so
\* that repeating such runs caches every key); and a run that is not forced
\* and started with every key cached makes no provider call and keeps every
\* key cached.
C15_ResumeMakesProgress ==
    /\ ( /\ Ended
         /\ outcome = "interrupted"
         /\ ~args.force
         /\ trace.cache_puts >= 1 )
       => /\ CachedKeys(trace.start_cache) \subseteq CachedKeys(Cache)
          /\ CachedKeys(trace.start_cache) # CachedKeys(Cache)
    /\ ( /\ Worked
         /\ ~args.force
         /\ CachedKeys(trace.start_cache) = AllKeys )
       => /\ trace.calls = <<>>
          /\ CachedKeys(Cache) = AllKeys

----------------------------------------------------------------------------
(* The commands below leave cmd_lyrics_enrich alone: in their              *)
(* specifications its variables, the cache file apart, stay as they are   *)
(* before any run                                                          *)

EnrichAtRest ==
    /\ songs = <<>>
    /\ source = "spotify"
    /\ pc = "idle"
    /\ runNo = 0
    /\ args = NoArgs
    /\ work = <<>>
    /\ idx = 1
    /\ enriched = <<>>
    /\ counters = NoCounters
    /\ result = NoResult
    /\ pending = <<>>
    /\ outcome = "none"
    /\ trace = NoTrace
    /\ prev = NoPrev
    /\ notFoundKeys = {}

----------------------------------------------------------------------------
(* cli._deduplicate_songs *)

\* longest list given to _deduplicate_songs
MaxDedupLen == 3

\* scrobbles as fetch_scrobbles returns them, before any deduplication: the
\* songs of LastfmSongs and "a " by "x" (the lookup key of "A" by "X")
ScrobbleSongs == LastfmSongs \cup {LastfmSong(<<"a", " ">>, <<"x">>, "Other")}

\* mutant of DedupKey: the key is built without strip() and lower()
DedupKeyRaw(song, src) == song.name \o <<"|", "|">> \o _get_artist_name(song, src)

\* cli.py:125-126  the key of a song inside _deduplicate_songs
DedupKey(song, src) ==
    Lower(Strip(song.name)) \o <<"|", "|">> \o Lower(Strip(_get_artist_name(song, src)))

\* cli.py:124-129  the loop over the songs, with the set of keys seen so far
RECURSIVE DedupFrom(_, _, _)
DedupFrom(list, src, seen) ==
    IF list = <<>> THEN <<>>
    ELSE LET song == Head(list)
             key == DedupKey(song, src)
         IN IF key \notin seen
            THEN <<song>> \o DedupFrom(Tail(list), src, seen \cup {key})
            ELSE DedupFrom(Tail(list), src, seen)

\* cli._deduplicate_songs
_deduplicate_songs(list, src) == DedupFrom(list, src, {})

\* any list of songs of one source, repetitions included
InitDedup ==
    /\ EnrichAtRest
    /\ cacheFile = FileAbsent
    /\ store = NoStore
    /\ storeOp = NoStoreOp
    /\ index = <<>>
    /\ report = NoReport
    /\ FetchAtRest
    /\ \E src \in Sources :
         \E list \in SeqsUpTo(IF src = "spotify" THEN SpotifySongs ELSE ScrobbleSongs,
                              MaxDedupLen) :
            dedup = [NoDedup EXCEPT !.pc = "ready", !.source = src, !.songs = list]

\* _deduplicate_songs is applied to the list
Deduplicate ==
    /\ dedup.pc = "ready"
    /\ dedup' = [dedup EXCEPT !.pc = "once",
                              !.unique = _deduplicate_songs(dedup.songs, dedup.source)]
    /\ UNCHANGED <<enrichVars, fetchVars, store, storeOp, index, report>>

\* _deduplicate_songs is applied to its own result
DeduplicateAgain ==
    /\ dedup.pc = "once"
    /\ dedup' = [dedup EXCEPT !.pc = "twice",
                              !.again = _deduplicate_songs(dedup.unique, dedup.source)]
    /\ UNCHANGED <<enrichVars, fetchVars, store, storeOp, index, report>>

NextDedup ==
    \/ Deduplicate
    \/ DeduplicateAgain

SpecDedup == InitDedup /\ [][NextDedup]_vars

----------------------------------------------------------------------------
(* C16 *)

\* the positions of the list that hold the first song of their lookup key
FirstOccurrences(list, src) ==
    {i \in 1..Len(list) :
        \A j \in 1..(i - 1) : SongKey(list[j], src) # SongKey(list[i], src)}

\* the k-th smallest element of a set of positions
Nth(S, k) == CHOOSE i \in S : Cardinality({j \in S : j < i}) = k - 1

\* C16: the result of _deduplicate_songs is the list of the first occurrences
\* of each lookup key, in input order: as many songs as there are first
\* occurrences, the k-th of them the song at the k-th first occurrence; no
\* two songs of the result share a lookup key and every lookup key of the
\* input is the key of a song of the result (a song without artist has the
\* key of the empty name); applied to its own result the function returns it
\* unchanged.
C16_Dedup ==
    LET src == dedup.source
        first == FirstOccurrences(dedup.songs, src)
        out == dedup.unique
    IN /\ dedup.pc \in {"once", "twice"}
          => /\ Len(out) = Cardinality(first)
             /\ \A k \in 1..Len(out) : out[k] = dedup.songs[Nth(first, k)]
             /\ \A i, j \in 1..Len(out) :
                   SongKey(out[i], src) = SongKey(out[j], src) => i = j
             /\ {SongKey(out[k], src) : k \in 1..Len(out)}
                = {SongKey(dedup.songs[i], src) : i \in 1..Len(dedup.songs)}
             /\ \A k \in 1..Len(out) :
                   _get_artist_name(out[k], src) = <<>>
                   => SongKey(out[k], src) = _make_key(out[k].name, <<>>)
       /\ dedup.pc = "twice" => dedup.again = out

\* three Spotify songs, the first of them without artist and the other two
\* with one lookup key in different spellings, were cut to two songs, and
\* the second application is done
C16_Witness ==
    /\ dedup.pc = "twice"
    /\ dedup.source = "spotify"
    /\ Len(dedup.songs) = 3
    /\ Len(dedup.unique) = 2
    /\ dedup.songs[1].artists = <<>>
    /\ dedup.songs[2] # dedup.songs[3]
    /\ dedup.unique = SubSeq(dedup.songs, 1, 2)

----------------------------------------------------------------------------
(* song_store: the snapshot files of the two sources *)

\* number of saves in one behaviour
MaxSaves == 3

\* mutant of Snapshot: every snapshot is tagged "spotify"
SnapshotTaggedSpotify(src, list, at) ==
    [present |-> TRUE, source |-> "spotify", fetched_at |-> at, count |-> Len(list),
     songs |-> list]

\* song_store.py:48-53 and 67-72: the data a save writes
Snapshot(src, list, at) ==
    [present |-> TRUE, source |-> src, fetched_at |-> at, count |-> Len(list),
     songs |-> list]

\* song_store._load_store: a missing or undecodable file is None
_load_store(file) == IF file.state = "json" THEN file.doc ELSE NoSnapshot

\* song_store.load_spotify_songs / load_lastfm_scrobbles
LoadSongs(st, src) == _load_store(st[src])

InitStore ==
    /\ EnrichAtRest
    /\ cacheFile = FileAbsent
    /\ OthersAtRest

\* save_spotify_songs / save_lastfm_scrobbles up to the point where
\* _save_store has opened the file with write_text, which empties it
BeginStoreSave(src, list) ==
    /\ storeOp.pc = "idle"
    /\ storeOp.clock < MaxSaves
    /\ store' = [store EXCEPT ![src] = FileTruncated]
    /\ storeOp' = [storeOp EXCEPT !.pc = "writing", !.source = src,
                                  !.clock = @ + 1,
                                  !.data = Snapshot(src, list, storeOp.clock + 1)]
    /\ report' = NoReport
    /\ UNCHANGED <<enrichVars, fetchVars, index, dedup>>

\* cli.py:221-222: the liked songs are saved as fetched
SaveSpotify == \E list \in SpotifyLists : BeginStoreSave("spotify", list)

\* cli.py:240-244: the scrobbles are saved after deduplication
SaveLastfm == \E list \in LastfmLists : BeginStoreSave("lastfm", list)

\* song_store.py:34-37: the JSON text is written, the file closed, and the
\* save returns
FinishStoreSave ==
    /\ storeOp.pc = "writing"
    /\ store' = [store EXCEPT ![storeOp.source] = JsonFile(storeOp.data)]
    /\ storeOp' = [storeOp EXCEPT !.pc = "idle", !.data = NoSnapshot,
                                  !.last[storeOp.source] =
                                      [saved |-> TRUE, songs |-> storeOp.data.songs]]
    /\ UNCHANGED <<enrichVars, fetchVars, index, report, dedup>>

\* the process stops (Ctrl+C, kill) while write_text is writing: the file
\* stays as it is
StopStoreSave ==
    /\ storeOp.pc = "writing"
    /\ storeOp' = [storeOp EXCEPT !.pc = "idle", !.data = NoSnapshot]
    /\ UNCHANGED <<enrichVars, fetchVars, store, index, report, dedup>>

\* load_spotify_songs / load_lastfm_scrobbles
LoadStore ==
    /\ storeOp.pc = "idle"
    /\ \E src \in Sources :
         report' = [cmd |-> "load", source |-> src, value |-> LoadSongs(store, src)]
    /\ UNCHANGED <<enrichVars, fetchVars, store, storeOp, index, dedup>>

NextStore ==
    \/ SaveSpotify
    \/ SaveLastfm
    \/ FinishStoreSave
    \/ StopStoreSave
    \/ LoadStore

SpecStore == InitStore /\ [][NextStore]_vars

----------------------------------------------------------------------------
(* C17 *)

\* the file of the source is as a save that returned, or no save, left it
Settled(src) == store[src].state # "corrupt"

\* what load has to return for a source: the list of the last save that
\* returned, counted and tagged, or None
LoadsLastSave(v, src) ==
    IF storeOp.last[src].saved
    THEN /\ v.present
         /\ v.songs = storeOp.last[src].songs
         /\ v.count = Len(storeOp.last[src].songs)
         /\ v.source = src
    ELSE ~v.present

\* C17: after any sequence of saves that returned, load of a source returns
\* the tracks of the most recent save for that source, with count equal to
\* their number and the source tag of that source, and None when no save for
\* it was made; this is so for the value a load has just returned and for
\* both sources at once, whatever was saved for the other source.
C17_SaveLoad ==
    /\ ( report.cmd = "load" /\ Settled(report.source) )
       => LoadsLastSave(report.value, report.source)
    /\ \A src \in Sources :
          Settled(src) => LoadsLastSave(LoadSongs(store, src), src)

\* the third save was the second for Last.fm, with two songs, after one for
\* Spotify; load returns the two songs
C17_Witness ==
    /\ report.cmd = "load"
    /\ report.source = "lastfm"
    /\ storeOp.clock = 3
    /\ report.value.fetched_at = 3
    /\ report.value.count = 2
    /\ store["spotify"].state = "json"
    /\ store["spotify"].doc.fetched_at = 1

----------------------------------------------------------------------------
(* C18 *)

\* C18 as stated: in every state, a stop in the middle of a save included,
\* load of a source for which a save has returned yields a complete snapshot,
\* the previous one or the one being saved, never None.
C18_AtomicReplace ==
    \A src \in Sources :
       storeOp.last[src].saved
       => LET v == LoadSongs(store, src)
          IN /\ v.present
             /\ \/ v.songs = storeOp.last[src].songs
                \/ /\ storeOp.pc = "writing"
                   /\ storeOp.source = src
                   /\ v = storeOp.data

----------------------------------------------------------------------------
(* Damaged files: what the commands do when the cache file or a store     *)
(* file was not left by a completed write of this program                 *)

\* a file whose bytes are not UTF-8 text
FileUndecodable == [state |-> "undecodable", doc |-> <<>>]

\* a file that holds valid JSON which is a non-empty array, not an object
FileJsonArray == [state |-> "json_array", doc |-> <<1>>]

\* lyrics_cache.py:24-27 and song_store.py:25-28: read_text raises
\* UnicodeDecodeError, which the except clause (JSONDecodeError, OSError)
\* does not catch
ReadRaises(file) == file.state = "undecodable"

\* json.loads succeeds and returns a list: the loader hands it to its caller
LoadsList(file) == file.state = "json_array"

\* the file as the program sees it when every damage counts as absence
AsAbsent(file) == IF file.state \in {"absent", "json"} THEN file ELSE FileAbsent

\* the states a file can be found in: missing, written by this program,
\* invalid JSON (a truncated write), undecodable bytes, a JSON array
FoundFiles(doc) ==
    {FileAbsent, JsonFile(doc), FileTruncated, FileUndecodable, FileJsonArray}

\* the tracks the cache is asked about
AskedTracks == {<< <<"A">>, <<"X">> >>, << <<"b">>, <<>> >>}

\* get_cached_lyrics (cache.get), save_lyrics_to_cache (cache[key] = ...) and
\* get_cache_stats (cache.values()) fail on a list, and on a read that raises
CacheCallFails(file) == ReadRaises(file) \/ LoadsList(file)

\* get_store_info and _load_songs_from_store (data["count"]) fail on a
\* non-empty list, and on a read that raises
StoreCallFails(file) == ReadRaises(file) \/ LoadsList(file)

InitDamaged ==
    /\ EnrichAtRest
    /\ cacheFile \in FoundFiles(SeedCache)
    /\ \E sp \in FoundFiles(Snapshot("spotify", <<>>, 0)),
          lf \in FoundFiles(Snapshot("lastfm", <<>>, 0)) :
         store = [src \in Sources |-> IF src = "spotify" THEN sp ELSE lf]
    /\ storeOp = NoStoreOp
    /\ index = <<>>
    /\ report = NoReport
    /\ dedup = NoDedup
    /\ FetchAtRest

\* lyrics_cache.get_cached_lyrics, called for one track
CmdCacheGet ==
    /\ \E t \in AskedTracks :
         report' =
           [cmd |-> "get", failed |-> CacheCallFails(cacheFile),
            like_absent |->
               /\ ~CacheCallFails(cacheFile)
               /\ get_cached_lyrics(cacheFile, t[1], t[2])
                  = get_cached_lyrics(AsAbsent(cacheFile), t[1], t[2])]
    /\ UNCHANGED <<enrichVars, fetchVars, store, storeOp, index, dedup>>

\* lyrics_cache.save_lyrics_to_cache, the whole call: load, update, write
CmdCachePut ==
    /\ \E t \in AskedTracks, reply \in ProviderReplies :
         LET lyrics_data == fetch_lyrics_for_songs(SpotifySong(t[1], <<t[2]>>, ""), reply)
         IN IF CacheCallFails(cacheFile)
            THEN /\ report' = [cmd |-> "put", failed |-> TRUE, like_absent |-> FALSE]
                 /\ UNCHANGED cacheFile
            ELSE /\ cacheFile' = JsonFile(save_lyrics_to_cache(cacheFile, t[1], t[2],
                                                               lyrics_data))
                 /\ report' =
                      [cmd |-> "put", failed |-> FALSE,
                       like_absent |->
                          cacheFile' = JsonFile(save_lyrics_to_cache(
                                          AsAbsent(cacheFile), t[1], t[2], lyrics_data))]
    /\ UNCHANGED <<songs, source, pc, runNo, args, work, idx, enriched, counters,
                   result, pending, outcome, trace, prev, notFoundKeys>>
    /\ UNCHANGED <<store, storeOp, index, dedup, fetchVars>>

\* cli.cmd_status: get_store_info for both files, then get_cache_stats
CmdStatus ==
    /\ LET fails == \/ \E src \in Sources : StoreCallFails(store[src])
                    \/ CacheCallFails(cacheFile)
       IN report' =
            [cmd |-> "status", failed |-> fails,
             like_absent |->
                /\ ~fails
                /\ \A src \in Sources :
                      LoadSongs(store, src) = _load_store(AsAbsent(store[src]))
                /\ get_cache_stats(cacheFile) = get_cache_stats(AsAbsent(cacheFile))]
    /\ UNCHANGED <<enrichVars, fetchVars, store, storeOp, index, dedup>>

\* cli._load_songs_from_store for --source spotify or lastfm
CmdStoreLoad ==
    /\ \E src \in Sources :
         report' =
           [cmd |-> "load", failed |-> StoreCallFails(store[src]),
            like_absent |->
               /\ ~StoreCallFails(store[src])
               /\ LoadSongs(store, src) = _load_store(AsAbsent(store[src]))]
    /\ UNCHANGED <<enrichVars, fetchVars, store, storeOp, index, dedup>>

\* save_spotify_songs / save_lastfm_scrobbles, the whole call: the file is
\* written without being read
CmdStoreSave ==
    /\ storeOp.clock < MaxSaves
    /\ \E src \in Sources :
         \E list \in (IF src = "spotify" THEN SpotifyLists ELSE LastfmLists) :
            /\ store' = [store EXCEPT
                           ![src] = JsonFile(Snapshot(src, list, storeOp.clock + 1))]
            /\ storeOp' = [storeOp EXCEPT !.clock = @ + 1, !.source = src,
                              !.last[src] = [saved |-> TRUE, songs |-> list]]
    /\ report' = [cmd |-> "save", failed |-> FALSE, like_absent |-> TRUE]
    /\ UNCHANGED <<enrichVars, fetchVars, index, dedup>>

NextDamaged ==
    \/ CmdCacheGet
    \/ CmdCachePut
    \/ CmdStatus
    \/ CmdStoreLoad
    \/ CmdStoreSave

SpecDamaged == InitDamaged /\ [][NextDamaged]_vars

----------------------------------------------------------------------------
(* C19 *)

\* C19 as stated: whatever state the cache file and the store files were
\* found in (invalid JSON, undecodable bytes, JSON that is not a mapping),
\* no command fails and every command does what it does when the damaged
\* file is missing; after a put the cache file, and after a save the store
\* file, is a freshly written valid file.
C19_DamagedIsAbsent ==
    report.cmd # "none"
    => /\ ~report.failed
       /\ report.like_absent
       /\ report.cmd = "put" => cacheFile.state = "json"
       /\ report.cmd = "save" => store[storeOp.source].state = "json"

\* the part of C19 that holds: a file of invalid JSON (and only that kind of
\* damage) is handled like a missing file
C19_InvalidJsonIsAbsent ==
    ( /\ report.cmd # "none"
      /\ cacheFile.state \in {"absent", "json", "corrupt"}
      /\ \A src \in Sources : store[src].state \in {"absent", "json", "corrupt"} )
    => /\ ~report.failed
       /\ report.like_absent

----------------------------------------------------------------------------
(* cmd_index and vector_store.index_songs *)

\* truth value of a text field that may be None or ""
HasText(x) == x # NoText /\ x # ""

\* what get_lyrics can return for a track of the index: the replies of
\* ProviderReplies and a record that has neither plain lyrics nor the
\* instrumental flag
LrclibReplies ==
    ProviderReplies \cup
    { [kind |-> "found", plain_lyrics |-> NoText, synced_lyrics |-> "[00:01] la",
       instrumental |-> FALSE] }

\* the entries save_lyrics_to_cache can have stored for a track
EntriesOf(t) ==
    { CacheEntry(t[1], t[2],
                 fetch_lyrics_for_songs(SpotifySong(t[1], <<t[2]>>, ""), reply)) :
        reply \in LrclibReplies }

\* the caches over the asked tracks, in either insertion order
IndexCaches ==
    UNION { { << <<_make_key(t[1], t[2]), e>> >> : e \in EntriesOf(t) } :
            t \in AskedTracks }
    \cup
    UNION { UNION { { << <<_make_key(t[1], t[2]), e>>, <<_make_key(u[1], u[2]), f>> >> :
                        e \in EntriesOf(t), f \in EntriesOf(u) } :
                    u \in AskedTracks \ {t} } :
            t \in AskedTracks }

\* mutant of IndexId: the names are not stripped
IndexIdNoStrip(song) ==
    Lower(song.track_name) \o <<"|", "|">> \o Lower(song.artist_name)

\* vector_store.py:120  the id of a song in the collection
IndexId(song) ==
    Lower(Strip(song.track_name)) \o <<"|", "|">> \o Lower(Strip(song.artist_name))

\* song.get("album", ""): a cache entry has no album field
AlbumOf(song) == IF "album" \in DOMAIN song THEN song.album ELSE ""

\* vector_store.build_document_text: the lines of the document, in order
build_document_text(song) ==
    << [line |-> "Song", track |-> song.track_name, artist |-> song.artist_name,
        text |-> ""] >>
    \o (IF AlbumOf(song) # ""
        THEN << [line |-> "Album", track |-> <<>>, artist |-> <<>>,
                 text |-> AlbumOf(song)] >>
        ELSE <<>>)
    \o (IF song.instrumental
        THEN << [line |-> "Instrumental", track |-> <<>>, artist |-> <<>>,
                 text |-> ""] >>
        ELSE <<>>)
    \o (IF HasText(song.plain_lyrics)
        THEN << [line |-> "Lyrics", track |-> <<>>, artist |-> <<>>,
                 text |-> song.plain_lyrics] >>
        ELSE <<>>)

\* vector_store.py:131-137
Metadata(song) ==
    [track_name |-> song.track_name, artist_name |-> song.artist_name,
     album |-> AlbumOf(song), instrumental |-> song.instrumental,
     has_lyrics |-> HasText(song.plain_lyrics)]

\* mutant of ShouldSkip: a song without lyrics text is skipped, instrumental
\* or not
ShouldSkipWithoutText(song) == ~HasText(song.plain_lyrics)

\* vector_store.py:126  if not doc_text.strip() or (not plain_lyrics and not
\* instrumental)
ShouldSkip(song) ==
    \/ build_document_text(song) = <<>>
    \/ ~HasText(song.plain_lyrics) /\ ~song.instrumental

\* vector_store.py:113-138: the (id, document, metadata) triples to upsert
Documents(list) ==
    LET kept == SelectSeq(list, LAMBDA sg : ~ShouldSkip(sg))
    IN [k \in 1..Len(kept) |->
           <<IndexId(kept[k]), [document |-> build_document_text(kept[k]),
                                metadata |-> Metadata(kept[k])]>>]

\* collection.upsert, entry after entry: an id that is present is
\* overwritten in place (the last entry with the id wins), an id that is new
\* is appended where it occurs first
Upsert(collection, docs) ==
    LET Has(id) == \E k \in 1..Len(docs) : docs[k][1] = id
        Last(id) == docs[CHOOSE k \in 1..Len(docs) :
                            /\ docs[k][1] = id
                            /\ \A j \in (k + 1)..Len(docs) : docs[j][1] # id][2]
        overwritten == [i \in 1..Len(collection) |->
                           IF Has(collection[i][1])
                           THEN <<collection[i][1], Last(collection[i][1])>>
                           ELSE collection[i]]
        first == SelectSeq([k \in 1..Len(docs) |-> k],
                           LAMBDA k : /\ ~DictHas(collection, docs[k][1])
                                      /\ \A j \in 1..(k - 1) : docs[j][1] # docs[k][1])
    IN overwritten \o [n \in 1..Len(first) |->
                          <<docs[first[n]][1], Last(docs[first[n]][1])>>]

\* vector_store.py:141
batch_size == 100

\* seq[i:j] for 0 <= i <= j
Slice(seq, i, j) == SubSeq(seq, i + 1, Min(j, Len(seq)))

\* mutant of Batches: the metadata slice always starts at the first entry
RECURSIVE BatchesMetaFromStart(_, _, _, _)
BatchesMetaFromStart(documents, metadatas, ids, i) ==
    IF i >= Len(documents) THEN <<>>
    ELSE << [documents |-> Slice(documents, i, i + batch_size),
             metadatas |-> Slice(metadatas, 0, Min(i + batch_size, Len(documents)) - i),
             ids |-> Slice(ids, i, i + batch_size)] >>
         \o BatchesMetaFromStart(documents, metadatas, ids, i + batch_size)

\* vector_store.py:142-146: the three slices of every turn of the loop
\* for i in range(0, len(documents), batch_size), from offset i on
RECURSIVE Batches(_, _, _, _)
Batches(documents, metadatas, ids, i) ==
    IF i >= Len(documents) THEN <<>>
    ELSE << [documents |-> Slice(documents, i, i + batch_size),
             metadatas |-> Slice(metadatas, i, i + batch_size),
             ids |-> Slice(ids, i, i + batch_size)] >>
         \o Batches(documents, metadatas, ids, i + batch_size)

\* collection.upsert(documents=, metadatas=, ids=): the three lists are
\* matched by position
UpsertBatch(collection, batch) ==
    Upsert(collection,
           [k \in 1..Len(batch.ids) |->
               <<batch.ids[k], [document |-> batch.documents[k],
                                metadata |-> batch.metadatas[k]]>>])

\* the collection after the upserts of the loop
RECURSIVE UpsertAll(_, _)
UpsertAll(collection, batches) ==
    IF batches = <<>> THEN collection
    ELSE UpsertAll(UpsertBatch(collection, Head(batches)), Tail(batches))

\* vector_store.py:153  newly_added += len(batch_docs)
RECURSIVE NewlyAdded(_)
NewlyAdded(batches) ==
    IF batches = <<>> THEN 0
    ELSE Len(Head(batches).documents) + NewlyAdded(Tail(batches))

\* mutant of index_songs: the documents are added, never overwritten
IndexSongsAdd(list, collection) ==
    LET docs == Documents(list)
        after == collection \o docs
    IN [collection |-> after,
        batches |-> <<>>,
        stats |-> [total_processed |-> Len(list), indexed |-> Len(docs),
                   skipped |-> Len(list) - Len(docs),
                   collection_size |-> Len(after)]]

\* vector_store.index_songs: the collection after the call, the batches
\* sent to collection.upsert in order (history) and the stats
index_songs(list, collection) ==
    LET docs == Documents(list)
        ids == [k \in 1..Len(docs) |-> docs[k][1]]
        documents == [k \in 1..Len(docs) |-> docs[k][2].document]
        metadatas == [k \in 1..Len(docs) |-> docs[k][2].metadata]
        batches == Batches(documents, metadatas, ids, 0)
        after == UpsertAll(collection, batches)
    IN [collection |-> after,
        batches |-> batches,
        stats |-> [total_processed |-> Len(list), indexed |-> NewlyAdded(batches),
                   skipped |-> Len(list) - Len(docs),
                   collection_size |-> Len(after)]]

NoStats == [total_processed |-> 0, indexed |-> 0, skipped |-> 0, collection_size |-> 0]

\* a cache left by earlier enrichment runs, or none; an empty collection
InitIndex ==
    /\ EnrichAtRest
    /\ cacheFile \in {FileAbsent} \cup {JsonFile(c) : c \in IndexCaches}
    /\ OthersAtRest

\* cli.cmd_index: exit status 1 when the cache is empty or has no entry with
\* lyrics_found, else index_songs over the entries with lyrics_found; before:
\* the collection when the command started, again: the command before this
\* one was an index build too, so the cache has not changed since (history)
CmdIndex ==
    /\ LET cache == _load_cache(cacheFile)
           values == [i \in 1..Len(cache) |-> cache[i][2]]
           songs_with_content == SelectSeq(values, LAMBDA v : v.lyrics_found)
           done == index_songs(songs_with_content, index)
       IN IF cache = <<>> \/ songs_with_content = <<>>
          THEN /\ report' = [cmd |-> "index", exit |-> 1, stats |-> NoStats,
                             cached |-> Len(cache), before |-> index,
                             again |-> report.cmd = "index", batches |-> <<>>]
               /\ UNCHANGED index
          ELSE /\ index' = done.collection
               /\ report' = [cmd |-> "index", exit |-> 0, stats |-> done.stats,
                             cached |-> Len(cache), before |-> index,
                             again |-> report.cmd = "index",
                             batches |-> done.batches]
    /\ UNCHANGED <<enrichVars, fetchVars, store, storeOp, dedup>>

NextIndex ==
    \/ CmdIndex
    \/ CmdCachePut

SpecIndex == InitIndex /\ [][NextIndex]_vars

----------------------------------------------------------------------------
(* C20 *)

\* the entry qualifies for the index
Eligible(e) == e.lyrics_found /\ (HasText(e.plain_lyrics) \/ e.instrumental)

\* the number of cache entries that satisfy P
NumEntries(P(_)) == Cardinality({i \in 1..Len(Cache) : P(Cache[i][2])})

\* C20 as stated: when an index build has just run, a cache entry is in the
\* vector store if and only if it qualifies.
C20_InStoreIffEligible ==
    report.cmd = "index"
    => \A i \in 1..Len(Cache) : DictHas(index, Cache[i][1]) <=> Eligible(Cache[i][2])

\* C20 amended: when an index build has just run, every cache entry that
\* qualifies (lyrics_found and either lyrics text or the instrumental flag)
\* is in the vector store under its lookup key with the document and the
\* metadata built from it; an entry that does not qualify was not sent to
\* the store: it is in the store exactly if it was there before the build,
\* with what it had then.  A build that found an entry with lyrics_found
\* ends with status 0 and reports as processed the entries with
\* lyrics_found, as indexed those that qualify and as skipped the others
\* of them; a build that found none ends with status 1 and leaves the store
\* as it was.
C20_IndexSkipRule ==
    report.cmd = "index"
    => /\ \A i \in 1..Len(Cache) :
             LET id == Cache[i][1]
                 e == Cache[i][2]
             IN IF Eligible(e)
                THEN /\ DictHas(index, id)
                     /\ DictAt(index, id).document = build_document_text(e)
                     /\ DictAt(index, id).metadata.instrumental = e.instrumental
                     /\ DictAt(index, id).metadata.has_lyrics = HasText(e.plain_lyrics)
                ELSE /\ DictHas(index, id) <=> DictHas(report.before, id)
                     /\ DictHas(index, id)
                        => DictAt(index, id) = DictAt(report.before, id)
       /\ ( NumEntries(LAMBDA e : e.lyrics_found) = 0 ) <=> report.exit = 1
       /\ report.exit = 1 => index = report.before
       /\ report.exit = 0
          => /\ report.stats.total_processed = NumEntries(LAMBDA e : e.lyrics_found)
             /\ report.stats.indexed = NumEntries(Eligible)
             /\ report.stats.skipped
                = NumEntries(LAMBDA e : e.lyrics_found /\ ~Eligible(e))
             /\ report.stats.collection_size = Len(index)

\* a build into an empty store, over two entries, has indexed the one that
\* is instrumental without lyrics text and skipped the one that has
\* lyrics_found but neither text nor the flag
C20_Witness ==
    /\ report.cmd = "index"
    /\ report.exit = 0
    /\ report.before = <<>>
    /\ report.stats.indexed = 1
    /\ report.stats.skipped = 1
    /\ \E i \in 1..Len(Cache) :
          /\ Cache[i][2].instrumental
          /\ ~HasText(Cache[i][2].plain_lyrics)
          /\ DictHas(index, Cache[i][1])

----------------------------------------------------------------------------
(* C21 *)

\* the ids of the documents the build that has just run sent to the store
SentIds == {Cache[i][1] : i \in {j \in 1..Len(Cache) : Eligible(Cache[j][2])}}

----------------------------------------------------------------------------
\* lastfm_client._lastfm_request: one request with bounded retry

_MAX_RETRIES == 5

_RETRY_DELAY == 3

\* how one attempt can end: the parsed data, requests.HTTPError with a 5xx or
\* a 4xx status, requests.ConnectionError, requests.Timeout, or a JSON body
\* that holds the key "error"
Responses == {"ok", "5xx", "4xx", "connection_error", "timeout", "api_error"}

\* the exceptions the except clause names; the ValueError raised for an error
\* payload is not one of them and leaves the function at once
Caught(r) == r \in {"5xx", "4xx", "connection_error", "timeout"}

IsHttpError(r) == r \in {"5xx", "4xx"}

is_server_error(r) == r = "5xx"

is_connection_error(r) == r \in {"connection_error", "timeout"}

InitRetry ==
    /\ EnrichAtRest
    /\ cacheFile = FileAbsent
    /\ OthersAtRest

\* delay = _RETRY_DELAY; the loop is entered with attempt = 0
CallRequest ==
    /\ request.pc = "idle"
    /\ request' = [request EXCEPT !.pc = "attempting", !.attempt = 0,
                                  !.delay = _RETRY_DELAY]
    /\ UNCHANGED <<enrichVars, store, storeOp, index, report, dedup, fetch>>

\* one pass of the loop body up to return, time.sleep or raise
Respond(r) ==
    /\ request.pc = "attempting"
    /\ request' =
         [request EXCEPT
            !.got = Append(@, r),
            !.pc = IF r = "ok" THEN "returned"
                   ELSE IF /\ Caught(r)
                           /\ is_server_error(r) \/ is_connection_error(r)
                           /\ request.attempt < _MAX_RETRIES - 1
                        THEN "sleeping"
                        ELSE "raised"]
    /\ UNCHANGED <<enrichVars, store, storeOp, index, report, dedup, fetch>>

\* time.sleep(delay) returns; delay *= 2; continue
Sleep ==
    /\ request.pc = "sleeping"
    /\ request' = [request EXCEPT !.pc = "attempting",
                                  !.slept = Append(@, request.delay),
                                  !.delay = request.delay * 2,
                                  !.attempt = @ + 1]
    /\ UNCHANGED <<enrichVars, store, storeOp, index, report, dedup, fetch>>

NextRetry ==
    \/ CallRequest
    \/ \E r \in Responses : Respond(r)
    \/ Sleep

SpecRetry == InitRetry /\ [][NextRetry]_vars

Transient(r) == r \in {"5xx", "connection_error", "timeout"}

Backoff == <<3, 6, 12, 24>>

\* C22: a request makes at most 5 attempts; it waits only after an attempt
\* that ended in a 5xx status, a connection error or a timeout, and the waits
\* are 3, 6, 12, 24 seconds in this order; it returns exactly when an attempt
\* succeeded; it raises exactly when an attempt ended in a failure that is not
\* transient (no wait follows it: when it is the first attempt, no wait was
\* made at all) or when the fifth attempt failed.
C22_BoundedRetry ==
    LET got == request.got
        n == Len(got)
        slept == request.slept
    IN /\ n <= 5
       /\ Len(slept) <= 4
       /\ slept = SubSeq(Backoff, 1, Len(slept))
       /\ \A i \in 1..n : i < n => Transient(got[i])
       /\ \A i \in 1..Len(slept) : Transient(got[i])
       /\ request.pc = "attempting" => Len(slept) = n /\ request.attempt = n
       /\ request.pc = "sleeping"
          => Len(slept) = n - 1 /\ n < 5 /\ Transient(got[n])
       /\ request.pc \in {"returned", "raised"} => n >= 1 /\ Len(slept) = n - 1
       /\ request.pc = "returned" <=> n >= 1 /\ got[n] = "ok"
       /\ request.pc = "raised"
          <=> /\ n >= 1
              /\ got[n] # "ok"
              /\ ~Transient(got[n]) \/ n = 5
       /\ n = 1 /\ ~Transient(got[1]) => slept = <<>>

C22_Witness ==
    /\ request.pc = "raised"
    /\ Len(request.got) = 5
    /\ request.slept = <<3, 6, 12, 24>>

----------------------------------------------------------------------------
\* cli._load_songs_from_store: the track list a command works on

\* sys.exit(1) after the message that nothing is stored
NoSongs == [exit |-> 1, songs |-> <<>>, source |-> "none"]

\* cli.py:193  {**s, "artists": [s["artist"]]}
Normalize(s) == [s EXCEPT !.artists = <<s.artist>>]

NormalizeAll(list) == [i \in 1..Len(list) |-> Normalize(list[i])]

\* mutant of Combined: the scrobbles come first
CombinedLastfmFirst(spotify_data, lastfm_data) ==
    (IF lastfm_data.present THEN NormalizeAll(lastfm_data.songs) ELSE <<>>)
    \o (IF spotify_data.present THEN spotify_data.songs ELSE <<>>)

\* cli.py:184-193  the songs of the snapshots that exist, Spotify first
Combined(spotify_data, lastfm_data) ==
    (IF spotify_data.present THEN spotify_data.songs ELSE <<>>)
    \o (IF lastfm_data.present THEN NormalizeAll(lastfm_data.songs) ELSE <<>>)

\* cli.py:142-155  what "auto" becomes
EffectiveSource(st, src) ==
    IF src # "auto" THEN src
    ELSE IF LoadSongs(st, "spotify").present /\ LoadSongs(st, "lastfm").present
         THEN "both"
         ELSE IF LoadSongs(st, "spotify").present THEN "spotify"
         ELSE IF LoadSongs(st, "lastfm").present THEN "lastfm"
         ELSE "none"

_load_songs_from_store(st, src) ==
    LET spotify_data == LoadSongs(st, "spotify")
        lastfm_data == LoadSongs(st, "lastfm")
        effective == EffectiveSource(st, src)
    IN CASE effective = "spotify" ->
              IF ~spotify_data.present THEN NoSongs
              ELSE [exit |-> 0, songs |-> spotify_data.songs, source |-> "spotify"]
         [] effective = "lastfm" ->
              IF ~lastfm_data.present THEN NoSongs
              ELSE [exit |-> 0, songs |-> lastfm_data.songs, source |-> "lastfm"]
         [] effective = "both" ->
              IF ~spotify_data.present /\ ~lastfm_data.present THEN NoSongs
              ELSE [exit |-> 0,
                    songs |-> _deduplicate_songs(
                                  Combined(spotify_data, lastfm_data), "spotify"),
                    source |-> "spotify"]
         [] OTHER -> NoSongs

\* the --source option
SourceOptions == {"auto", "spotify", "lastfm", "both"}

\* a snapshot file as the saves can leave it: missing, emptied by a save
\* that was stopped, or written
SnapshotFiles(src, lists) ==
    {FileAbsent, FileTruncated} \cup {JsonFile(Snapshot(src, l, 1)) : l \in lists}

InitSongs ==
    /\ EnrichAtRest
    /\ cacheFile = FileAbsent
    /\ storeOp = NoStoreOp
    /\ index = <<>>
    /\ report = NoReport
    /\ dedup = NoDedup
    /\ FetchAtRest
    /\ \E sp \in SnapshotFiles("spotify", SpotifyLists),
          lf \in SnapshotFiles("lastfm", LastfmLists) :
         store = [src \in Sources |-> IF src = "spotify" THEN sp ELSE lf]

\* a command loads its track list
CmdLoadSongs(src) ==
    /\ report' = [cmd |-> "songs", arg |-> src,
                  effective |-> EffectiveSource(store, src),
                  value |-> _load_songs_from_store(store, src)]
    /\ UNCHANGED <<enrichVars, fetchVars, store, storeOp, index, dedup>>

NextSongs == \E src \in SourceOptions : CmdLoadSongs(src)

SpecSongs == InitSongs /\ [][NextSongs]_vars

\* the keys of a list of records that carry the Spotify field "artists"
KeysOf(list) == {DedupKey(list[i], "spotify") : i \in 1..Len(list)}

\* the first record of the list with the key
FirstWith(list, key) ==
    list[CHOOSE i \in 1..Len(list) :
            /\ DedupKey(list[i], "spotify") = key
            /\ \A j \in 1..(i - 1) : DedupKey(list[j], "spotify") # key]

\* C23: when the track list is loaded from both snapshots (source "both", or
\* "auto" with both snapshots present), it holds exactly one record for every
\* lookup key of either snapshot; for a key of the Spotify snapshot it is
\* the (first) Spotify record, whether or not a scrobble has the key; a
\* scrobble record (with artists = [artist]) is in the list only for a key
\* that no Spotify record has; the Spotify records come first, in snapshot
\* order, and the list is read with the Spotify field mapping.
C23_CombinedTieBreak ==
    ( /\ report.cmd = "songs"
      /\ report.effective = "both"
      /\ LoadSongs(store, "spotify").present
      /\ LoadSongs(store, "lastfm").present )
    => LET sp == LoadSongs(store, "spotify").songs
           lf == NormalizeAll(LoadSongs(store, "lastfm").songs)
           out == report.value.songs
       IN /\ report.value.exit = 0
          /\ report.value.source = "spotify"
          /\ KeysOf(out) = KeysOf(sp) \cup KeysOf(lf)
          /\ Len(out) = Cardinality(KeysOf(out))
          /\ \A i \in 1..Len(out) :
                LET key == DedupKey(out[i], "spotify")
                IN IF key \in KeysOf(sp)
                   THEN out[i] = FirstWith(sp, key)
                   ELSE out[i] = FirstWith(lf, key)
          /\ out = _deduplicate_songs(sp, "spotify")
                   \o SelectSeq(lf, LAMBDA s : DedupKey(s, "spotify") \notin KeysOf(sp))

\* "A" by "X" is in both snapshots with different records, "b" only in the
\* scrobbles: the list is the Spotify "A" and the scrobble "b"
C23_Witness ==
    /\ report.cmd = "songs"
    /\ report.arg = "auto"
    /\ report.effective = "both"
    /\ LoadSongs(store, "spotify").present
    /\ LoadSongs(store, "lastfm").present
    /\ LoadSongs(store, "spotify").songs = <<SpotifySong(<<"A">>, << <<"X">> >>, "Album One")>>
    /\ Len(LoadSongs(store, "lastfm").songs) = 2
    /\ Len(report.value.songs) = 2
    /\ report.value.songs[1] = SpotifySong(<<"A">>, << <<"X">> >>, "Album One")
    /\ report.value.songs[2].artist = <<>>
    /\ report.value.songs[2].artists = << <<>> >>

----------------------------------------------------------------------------
(* C24, C25: the limits of an enrichment run *)

\* the number of tracks the run has taken up so far
Processed == Len(enriched) + (IF Position \in {"fetch", "fetched", "writing", "saved"}
                              THEN 1 ELSE 0)

\* the number of provider calls the run has made so far
ProviderCalls == Len(trace.calls) + (IF Position = "fetch" THEN 1 ELSE 0)

\* C24: a run with --force and new_only = n (n >= 1; n = 0 is the case of
\* C25) processes at most n tracks and makes at most n provider calls.
C24_NewOnlyCapUnderForce ==
    ( Worked /\ args.force /\ args.new_only # None /\ args.new_only >= 1 )
    => Processed <= args.new_only /\ ProviderCalls <= args.new_only

\* the same cap for a run without --force (holds)
C24_NewOnlyCapWithoutForce ==
    ( Worked /\ ~args.force /\ args.new_only # None /\ args.new_only >= 1 )
    => Processed <= args.new_only /\ ProviderCalls <= args.new_only

\* C25: a run with cap = 0 or with new_only = 0 processes no track, makes no
\* provider call and does not write the cache.
C25_ZeroLimits ==
    ( Worked /\ (args.limit = 0 \/ args.new_only = 0) )
    => /\ Processed = 0
       /\ ProviderCalls = 0
       /\ trace.cache_puts = 0
       /\ Cache = trace.start_cache

----------------------------------------------------------------------------
\* lyrics_cache: the three operations on the cache file, each as one call

\* the tracks of the calls: the asked tracks, " a" by "x " (the key of "A" by
\* "X") and "c" by "Y"
CacheTracks ==
    AskedTracks \cup {<< <<" ", "a">>, <<"x", " ">> >>, << <<"c">>, <<"Y">> >>}

InitCache ==
    /\ EnrichAtRest
    /\ cacheFile \in {FileAbsent, FileTruncated} \cup {JsonFile(c) : c \in IndexCaches}
    /\ OthersAtRest

\* lyrics_cache.save_lyrics_to_cache, the whole call: load, update, write
CachePut ==
    /\ \E t \in CacheTracks, reply \in ProviderReplies :
         LET lyrics_data == fetch_lyrics_for_songs(SpotifySong(t[1], <<t[2]>>, ""), reply)
         IN /\ cacheFile' = JsonFile(save_lyrics_to_cache(cacheFile, t[1], t[2],
                                                          lyrics_data))
            /\ report' = [cmd |-> "put", file |-> cacheFile,
                          key |-> _make_key(t[1], t[2]),
                          value |-> CacheEntry(t[1], t[2], lyrics_data)]
    /\ UNCHANGED <<songs, source, pc, runNo, args, work, idx, enriched, counters,
                   result, pending, outcome, trace, prev, notFoundKeys>>
    /\ UNCHANGED <<store, storeOp, index, dedup, fetchVars>>

\* lyrics_cache.get_cached_lyrics
CacheGet ==
    /\ \E t \in CacheTracks :
         report' = [cmd |-> "get", file |-> cacheFile, key |-> _make_key(t[1], t[2]),
                    value |-> get_cached_lyrics(cacheFile, t[1], t[2])]
    /\ UNCHANGED <<enrichVars, fetchVars, store, storeOp, index, dedup>>

\* lyrics_cache.get_cache_stats
CacheStats ==
    /\ report' = [cmd |-> "stats", file |-> cacheFile, key |-> <<>>,
                  value |-> get_cache_stats(cacheFile)]
    /\ UNCHANGED <<enrichVars, fetchVars, store, storeOp, index, dedup>>

NextCache == CachePut \/ CacheGet \/ CacheStats

SpecCache == InitCache /\ [][NextCache]_vars

\* C26: after a put (a call of save_lyrics_to_cache that returned) every
\* entry that was stored under another key is still stored and equal, the
\* keys are the keys before and the key of the put, each once, the number of
\* entries is higher by 1 when the key was absent and the same when it was
\* present, and the entry of the key is the one put; after a get and after
\* stats the cache file is as it was before the call.
C26_PutFrame ==
    /\ report.cmd = "put"
       => LET before == _load_cache(report.file)
          IN /\ \A k \in DictKeys(before) \ {report.key} :
                   DictHas(Cache, k) /\ DictAt(Cache, k) = DictAt(before, k)
             /\ DictKeys(Cache) = DictKeys(before) \cup {report.key}
             /\ \A i, j \in 1..Len(Cache) : Cache[i][1] = Cache[j][1] => i = j
             /\ Len(Cache) = Len(before) + (IF DictHas(before, report.key) THEN 0 ELSE 1)
             /\ DictAt(Cache, report.key) = report.value
    /\ report.cmd \in {"get", "stats"} => cacheFile = report.file

\* an entry is overwritten with a different one while another key is stored
C26_Witness ==
    /\ report.cmd = "put"
    /\ Len(_load_cache(report.file)) = 2
    /\ DictHas(_load_cache(report.file), report.key)
    /\ DictAt(_load_cache(report.file), report.key) # report.value
    /\ Len(Cache) = 2

\* a third key is put into a cache of two entries
C26_WitnessGrows ==
    /\ report.cmd = "put"
    /\ Len(_load_cache(report.file)) = 2
    /\ Len(Cache) = 3

----------------------------------------------------------------------------
\* the commands of cli.main run one after the other on one data directory

\* what a command that loads its track list with --source auto gets
Stored(st) == _load_songs_from_store(st, "auto")

\* the snapshot files cmd_load has left before the first command: none, or
\* two liked songs, and none, or one scrobbled song
InitCommands ==
    /\ \E sp \in {FileAbsent,
                  JsonFile(Snapshot("spotify",
                                    <<SpotifySong(<<"A">>, << <<"X">> >>, "Album One"),
                                      SpotifySong(<<"b">>, <<>>, "Album Two")>>, 1))},
          lf \in {FileAbsent,
                  JsonFile(Snapshot("lastfm", <<LastfmSong(<<"b">>, <<>>, "")>>, 1))} :
         store = [src \in Sources |-> IF src = "spotify" THEN sp ELSE lf]
    /\ songs = Stored(store).songs
    /\ source = IF Stored(store).exit = 0 THEN Stored(store).source ELSE "spotify"
    /\ cacheFile = FileAbsent
    /\ pc = "idle"
    /\ runNo = MaxRuns - 1
    /\ args = NoArgs
    /\ work = <<>>
    /\ idx = 1
    /\ enriched = <<>>
    /\ counters = NoCounters
    /\ result = NoResult
    /\ pending = <<>>
    /\ outcome = "none"
    /\ trace = NoTrace
    /\ prev = NoPrev
    /\ notFoundKeys = {}
    /\ storeOp = [NoStoreOp EXCEPT !.clock = MaxSaves - 1]
    /\ index = <<>>
    /\ report = NoReport
    /\ dedup = NoDedup
    /\ FetchAtRest

\* cmd_lyrics_enrich starts: the option check, then the track list is loaded
\* from the store
EnrichFromStore ==
    \E f \in BOOLEAN, l \in OptionValues, n \in OptionValues :
        /\ PolicyConflict(l, n) \/ Stored(store).exit = 0
        /\ StartRun(f, l, n)

\* cli.py:152-155: cmd_lyrics_enrich ends with exit status 1 when the store
\* has no snapshot
EnrichWithoutStore ==
    /\ pc = "idle"
    /\ Stored(store).exit = 1
    /\ report' = [cmd |-> "enrich", exit |-> 1]
    /\ UNCHANGED <<enrichVars, fetchVars, store, storeOp, index, dedup>>

\* cmd_load as the store sees it: the snapshot of one source is written, or
\* the process is stopped while write_text is writing; songs and source
\* follow the store (they are what the next command will load)
CmdLoad ==
    /\ pc = "idle"
    /\ storeOp.clock < MaxSaves
    /\ \E src \in Sources :
         \E list \in (IF src = "spotify" THEN SpotifyLists ELSE LastfmLists) :
            \E file \in {JsonFile(Snapshot(src, list, storeOp.clock + 1)), FileTruncated} :
               /\ store' = [store EXCEPT ![src] = file]
               /\ storeOp' = [storeOp EXCEPT !.clock = @ + 1, !.source = src]
    /\ songs' = Stored(store').songs
    /\ source' = IF Stored(store').exit = 0 THEN Stored(store').source ELSE "spotify"
    /\ report' = [cmd |-> "load"]
    /\ UNCHANGED <<cacheFile, pc, runNo, args, work, idx, enriched, counters, result,
                   pending, outcome, trace, prev, notFoundKeys>>
    /\ UNCHANGED <<index, dedup, fetchVars>>

\* mutant of CmdSearch: the search removes the Spotify snapshot
CmdSearchDropsSnapshot ==
    /\ pc = "idle"
    /\ store' = [store EXCEPT !["spotify"] = FileAbsent]
    /\ report' = [cmd |-> "search", exit |-> 0, results |-> <<>>]
    /\ UNCHANGED <<enrichVars, fetchVars, storeOp, index, dedup>>

\* cli.cmd_search with the default -n 5: exit status 1 on an empty index,
\* else the ids of min(5, count) entries in the order the vector store ranks
\* them, which is the store's choice
CmdSearch ==
    /\ pc = "idle"
    /\ IF Len(index) = 0
       THEN report' = [cmd |-> "search", exit |-> 1, results |-> <<>>]
       ELSE \E results \in [1..Min(5, Len(index)) -> DictKeys(index)] :
               /\ NoDuplicates(results)
               /\ report' = [cmd |-> "search", exit |-> 0, results |-> results]
    /\ UNCHANGED <<enrichVars, fetchVars, store, storeOp, index, dedup>>

NextCommands ==
    \/ EnrichFromStore
    \/ EnrichWithoutStore
    \/ Filter
    \/ Lookup
    \/ ProviderReturns
    \/ BeginSave
    \/ FinishSave
    \/ AppendResult
    \/ Finish
    \/ Interrupt
    \/ InterruptFilter
    \/ CmdLoad
    \/ pc = "idle" /\ CmdIndex
    \/ pc = "idle" /\ CmdStatus
    \/ CmdSearch

SpecCommands == InitCommands /\ [][NextCommands]_vars

\* C27: a step of an enrichment run (whether the run completes, is
\* interrupted or is rejected), of an index build, of a search or of a status
\* query leaves both snapshot files as they are; the snapshot files change
\* only in a step of the load command.
C27_SnapshotsReadOnly ==
    [][ /\ store' # store => report'.cmd = "load" /\ storeOp'.clock = storeOp.clock + 1
        /\ ( \/ pc # "idle" \/ pc' # "idle"
             \/ runNo' # runNo
             \/ report'.cmd \in {"enrich", "index", "search", "status"} )
           => store' = store ]_vars

\* an enrichment run over the two stored snapshots was interrupted after one
\* track, then the index was built and searched
C27_Witness ==
    /\ outcome = "interrupted"
    /\ Len(enriched) = 1
    /\ LoadSongs(store, "spotify").present
    /\ LoadSongs(store, "lastfm").present
    /\ Len(index) = 1
    /\ report.cmd = "search"
    /\ report.exit = 0

----------------------------------------------------------------------------
(* C28 *)

\* the steps of a run that are the program's own (no interrupt)
RunStep ==
    \/ Filter
    \/ Lookup
    \/ ProviderReturns
    \/ BeginSave
    \/ FinishSave
    \/ AppendResult
    \/ Finish

\* how far a run is from its end: 5 per track still to take up, plus the
\* steps left for the track in hand; 0 when no run is under way
Remaining ==
    CASE pc = "idle" -> 0
      [] pc = "filter" -> 5 * Len(work) + 10
      [] pc = "top" -> 5 * (Len(work) + 1 - idx) + 5
      [] pc = "fetch" -> 5 * (Len(work) + 1 - idx) + 4
      [] pc = "fetched" -> 5 * (Len(work) + 1 - idx) + 3
      [] pc = "writing" -> 5 * (Len(work) + 1 - idx) + 2
      [] pc = "saved" -> 5 * (Len(work) + 1 - idx) + 1

\* the tracks of the enriched records are the first tracks of the list
EnrichedIsPrefix ==
    /\ Len(enriched) <= Len(work)
    /\ \A j \in 1..Len(enriched) : enriched[j].song = work[j]

----------------------------------------------------------------------------
(* C29 *)

\* C29: when a run has ended as interrupted, the number of cache puts that
\* were completed in the run equals the api_lookups counter it reports.
C29_InterruptedReportTruthful ==
    ( Ended /\ outcome = "interrupted" ) => trace.cache_puts = counters.api_lookups

\* the counter is never behind the puts, and is ahead by at most the one
\* lookup in hand (holds)
C29_LookupsCoverPuts ==
    Worked => /\ trace.cache_puts <= counters.api_lookups
              /\ counters.api_lookups <= trace.cache_puts + 1
              /\ (Ended /\ outcome = "completed") => trace.cache_puts = counters.api_lookups

----------------------------------------------------------------------------
\* cmd_load for Last.fm: fetch_scrobbles page by page, deduplicate, save

\* number of scrobbles of the account
MaxScrobbles == 4

\* number of tracks of a page in the model (the code asks for 200 a page)
PerPage == 2

\* the tracks user.getRecentTracks returns for a page number
PageOf(history, page) ==
    SubSeq(history, (page - 1) * PerPage + 1, Min(page * PerPage, Len(history)))

\* the attribute totalPages of the reply
TotalPages(history) == (Len(history) + PerPage - 1) \div PerPage

InitFetch ==
    /\ EnrichAtRest
    /\ cacheFile = FileAbsent
    /\ store \in {NoStore,
                  [NoStore EXCEPT !["lastfm"] =
                      JsonFile(Snapshot("lastfm", <<LastfmSong(<<"b">>, <<>>, "")>>, 0))]}
    /\ storeOp = NoStoreOp
    /\ index = <<>>
    /\ report = NoReport
    /\ dedup = NoDedup
    /\ request = NoRequest
    /\ \E h \in SeqsUpTo(ScrobbleSongs, MaxScrobbles) :
         fetch = [NoFetch EXCEPT !.history = h]

\* cli.py:236-240: get_scrobble_stats returns and fetch_scrobbles(limit=None)
\* starts, or the request of get_scrobble_stats raises and ends the command
LoadStart ==
    /\ fetch.pc = "idle"
    /\ \E ok \in BOOLEAN :
         fetch' = [fetch EXCEPT !.pc = IF ok THEN "request" ELSE "raised",
                                !.limit = None, !.page = 1, !.scrobbles = <<>>,
                                !.previous = store["lastfm"]]
    /\ UNCHANGED <<enrichVars, store, storeOp, index, report, dedup, request>>

\* lastfm_client.py:92-108: _lastfm_request returns the page; an empty page
\* ends the loop
PageReturns ==
    /\ fetch.pc = "request"
    /\ LET tracks == PageOf(fetch.history, fetch.page)
       IN fetch' = [fetch EXCEPT !.tracks = tracks,
                                 !.asked = Append(@, fetch.page),
                                 !.pc = IF tracks = <<>> THEN "return" ELSE "append"]
    /\ UNCHANGED <<enrichVars, store, storeOp, index, report, dedup, request>>

\* _lastfm_request raises (retries exhausted, a 4xx status, an error
\* payload): the exception leaves fetch_scrobbles and cmd_load
PageRaises ==
    /\ fetch.pc = "request"
    /\ fetch' = [fetch EXCEPT !.pc = "raised"]
    /\ UNCHANGED <<enrichVars, store, storeOp, index, report, dedup, request>>

\* mutant of PageEnd: the loop stops after the first page
PageEndAfterOnePage(f) == [f EXCEPT !.pc = "return", !.pages = @ + 1]

\* lastfm_client.py:123-143: after the last track of a page, the limit and
\* the page number decide whether the loop goes on
PageEnd(f) ==
    IF Truthy(f.limit) /\ Len(f.scrobbles) >= f.limit
    THEN [f EXCEPT !.scrobbles = Take(f.scrobbles, f.limit), !.pc = "return",
                   !.pages = @ + 1]
    ELSE IF f.page >= TotalPages(f.history)
         THEN [f EXCEPT !.pc = "return", !.pages = @ + 1]
         ELSE [f EXCEPT !.page = @ + 1, !.pc = "request", !.pages = @ + 1]

\* lastfm_client.py:110-143: one pass of the for loop; the pass for the last
\* track goes on to the end of the while body
AppendTrack ==
    /\ fetch.pc = "append"
    /\ LET f == [fetch EXCEPT !.scrobbles = Append(@, Head(fetch.tracks)),
                              !.tracks = Tail(@)]
       IN fetch' = IF f.tracks = <<>> THEN PageEnd(f) ELSE f
    /\ UNCHANGED <<enrichVars, store, storeOp, index, report, dedup, request>>

\* lastfm_client.py:145-148: KeyboardInterrupt anywhere inside the try block
\* (waiting for a page, or between two appends) is caught and the list
\* built so far is returned
FetchInterrupt ==
    /\ fetch.pc \in {"request", "append"}
    /\ fetch' = [fetch EXCEPT !.pc = "return", !.tracks = <<>>, !.interrupted = TRUE]
    /\ UNCHANGED <<enrichVars, store, storeOp, index, report, dedup, request>>

\* cli.py:242-245: the scrobbles are deduplicated and saved, and the command
\* ends; or the process is stopped while write_text is writing the snapshot
SaveFetched ==
    /\ fetch.pc = "return"
    /\ LET unique == _deduplicate_songs(fetch.scrobbles, "lastfm")
           data == Snapshot("lastfm", unique, storeOp.clock + 1)
       IN \/ /\ store' = [store EXCEPT !["lastfm"] = JsonFile(data)]
             /\ storeOp' = [storeOp EXCEPT !.clock = @ + 1, !.source = "lastfm",
                               !.last["lastfm"] = [saved |-> TRUE, songs |-> unique]]
             /\ fetch' = [fetch EXCEPT !.pc = "done"]
          \/ /\ store' = [store EXCEPT !["lastfm"] = FileTruncated]
             /\ storeOp' = [storeOp EXCEPT !.clock = @ + 1, !.source = "lastfm"]
             /\ fetch' = [fetch EXCEPT !.pc = "stopped"]
    /\ UNCHANGED <<enrichVars, index, report, dedup, request>>

NextFetch ==
    \/ LoadStart
    \/ PageReturns
    \/ PageRaises
    \/ AppendTrack
    \/ FetchInterrupt
    \/ SaveFetched

SpecFetch == InitFetch /\ [][NextFetch]_vars

\* the fetch has returned to cmd_load
Returned == fetch.pc \in {"return", "done", "stopped"}

\* the snapshot file holds the deduplicated list of what the fetch returned
SavedAsSnapshot ==
    LET unique == _deduplicate_songs(fetch.scrobbles, "lastfm")
        data == LoadSongs(store, "lastfm")
    IN /\ store["lastfm"].state = "json"
       /\ data.present
       /\ data.source = "lastfm"
       /\ data.songs = unique
       /\ data.count = Len(unique)
       /\ NoDupKeys(unique, "lastfm")
       /\ data.count = Cardinality({SongKey(fetch.scrobbles[i], "lastfm") :
                                       i \in 1..Len(fetch.scrobbles)})

\* C30 as stated: an interrupted fetch returns the scrobbles of the pages
\* completed so far (and the load saves them, deduplicated, as the snapshot).
C30_ReturnsCompletedPages ==
    /\ ( Returned /\ fetch.interrupted )
       => fetch.scrobbles = Take(fetch.history, fetch.pages * PerPage)
    /\ fetch.pc = "done" => SavedAsSnapshot

\* C30, amended: an interrupted fetch returns the scrobbles appended so far,
\* which are the first scrobbles of the account in provider order: all those
\* of the completed pages and possibly the first ones of the page in hand; a
\* fetch that is not interrupted returns them all; when the load has ended
\* normally the snapshot file holds the deduplicated list (count = number of
\* unique tracks) in place of any previous snapshot; as long as the load has
\* not reached the save, and when the fetch has raised, the snapshot file is
\* as it was when the command started.
C30_InterruptedFetchSaved ==
    /\ Returned
       => /\ fetch.scrobbles = Take(fetch.history, Len(fetch.scrobbles))
          /\ Len(fetch.scrobbles) >= fetch.pages * PerPage \/ fetch.scrobbles = fetch.history
          /\ Len(fetch.scrobbles) < (fetch.pages + 1) * PerPage
             \/ fetch.scrobbles = fetch.history
          /\ ~fetch.interrupted => fetch.scrobbles = fetch.history
    /\ fetch.pc = "done" => SavedAsSnapshot
    /\ fetch.pc \in {"request", "append", "return", "raised"}
       => store["lastfm"] = fetch.previous

\* the fetch was interrupted with one full page and the first track of the
\* second page appended; three scrobbles of two tracks were saved as two
\* songs over the previous snapshot
C30_Witness ==
    /\ fetch.pc = "done"
    /\ fetch.interrupted
    /\ fetch.pages = 1
    /\ Len(fetch.scrobbles) = 3
    /\ LoadSongs(store, "lastfm").count = 2
    /\ fetch.previous.state = "json"
    /\ LoadSongs(store, "lastfm").songs # fetch.previous.doc.songs

----------------------------------------------------------------------------
\* fetch_scrobbles and fetch_liked_songs called with a limit

\* values of the parameter limit
FetchLimits == {None} \cup (0..MaxScrobbles)

\* the account holds scrobbles or liked songs, newest first
InitPages ==
    /\ EnrichAtRest
    /\ cacheFile = FileAbsent
    /\ store = NoStore
    /\ storeOp = NoStoreOp
    /\ index = <<>>
    /\ report = NoReport
    /\ dedup = NoDedup
    /\ request = NoRequest
    /\ \E h \in SeqsUpTo(ScrobbleSongs, MaxScrobbles)
                \cup SeqsUpTo(SpotifySongs, MaxScrobbles) :
         fetch = [NoFetch EXCEPT !.history = h]

\* lastfm_client.py:83-89: fetch_scrobbles(limit) starts
FetchStart ==
    /\ fetch.pc = "idle"
    /\ \A i \in 1..Len(fetch.history) : fetch.history[i] \in ScrobbleSongs
    /\ \E limit \in FetchLimits :
         fetch' = [fetch EXCEPT !.pc = "request", !.limit = limit, !.page = 1,
                                !.scrobbles = <<>>]
    /\ UNCHANGED <<enrichVars, store, storeOp, index, report, dedup, request>>

\* spotify_client.py:62-65: fetch_liked_songs(limit) starts; the field
\* scrobbles holds its list songs
LikedStart ==
    /\ fetch.pc = "idle"
    /\ \A i \in 1..Len(fetch.history) : fetch.history[i] \in SpotifySongs
    /\ \E limit \in FetchLimits :
         fetch' = [fetch EXCEPT !.pc = "liked", !.limit = limit, !.offset = 0,
                                !.scrobbles = <<>>]
    /\ UNCHANGED <<enrichVars, store, storeOp, index, report, dedup, request>>

\* the items current_user_saved_tracks returns for an offset (the model's
\* batch size is PerPage, the code asks for 50)
ItemsAt(history, offset) ==
    SubSeq(history, offset + 1, Min(offset + PerPage, Len(history)))

\* mutant of LikedEnd: the offset is not advanced
LikedEndKeepsOffset(f, items) ==
    LET g == [f EXCEPT !.scrobbles = @ \o items, !.pages = @ + 1]
    IN IF Truthy(g.limit) /\ Len(g.scrobbles) >= g.limit
       THEN [g EXCEPT !.scrobbles = Take(g.scrobbles, g.limit), !.pc = "return"]
       ELSE IF Len(items) < PerPage THEN [g EXCEPT !.pc = "return"] ELSE g

\* spotify_client.py:88-111: the items of a page that is not empty are
\* appended, the offset is advanced, and the limit and the length of the page
\* decide whether the loop goes on
LikedEnd(f, items) ==
    LET g == [f EXCEPT !.scrobbles = @ \o items, !.offset = @ + PerPage,
                       !.pages = @ + 1]
    IN IF Truthy(g.limit) /\ Len(g.scrobbles) >= g.limit
       THEN [g EXCEPT !.scrobbles = Take(g.scrobbles, g.limit), !.pc = "return"]
       ELSE IF Len(items) < PerPage THEN [g EXCEPT !.pc = "return"] ELSE g

\* spotify_client.py:68-111: one pass of the while body: the page arrives, or
\* the request ends in HTTP 429 (the loop is left with what was fetched), or
\* in another SpotifyException (raised)
LikedPage ==
    /\ fetch.pc = "liked"
    /\ LET items == ItemsAt(fetch.history, fetch.offset)
           f == [fetch EXCEPT !.asked = Append(@, fetch.offset)]
       IN \/ fetch' = IF items = <<>> THEN [f EXCEPT !.pc = "return"]
                      ELSE LikedEnd(f, items)
          \/ fetch' = [f EXCEPT !.pc = "return", !.rate_limited = TRUE]
          \/ fetch' = [f EXCEPT !.pc = "raised"]
    /\ UNCHANGED <<enrichVars, store, storeOp, index, report, dedup, request>>

\* spotify_client.py:113-116: KeyboardInterrupt while the request is under
\* way, or after any number of appends of the for loop
LikedInterrupt ==
    /\ fetch.pc = "liked"
    /\ \E k \in 0..Len(ItemsAt(fetch.history, fetch.offset)) :
         fetch' = [fetch EXCEPT
                     !.scrobbles = @ \o Take(ItemsAt(fetch.history, fetch.offset), k),
                     !.asked = IF k > 0 THEN Append(@, fetch.offset) ELSE @,
                     !.interrupted = TRUE, !.pc = "return"]
    /\ UNCHANGED <<enrichVars, store, storeOp, index, report, dedup, request>>

NextPages ==
    \/ FetchStart
    \/ PageReturns
    \/ PageRaises
    \/ AppendTrack
    \/ FetchInterrupt
    \/ LikedStart
    \/ LikedPage
    \/ LikedInterrupt

SpecPages == InitPages /\ [][NextPages]_vars

\* the first min(limit, total) records, or all without a limit
Limited(history, limit) ==
    IF Truthy(limit) THEN Take(history, Min(limit, Len(history))) ELSE history

\* the requests were made by fetch_liked_songs (its first offset is 0)
IsLiked == fetch.asked # <<>> /\ fetch.asked[1] = 0

\* the function returned after a loop in which every request returned a page
\* and no interrupt arrived
RanThrough ==
    fetch.pc = "return" /\ ~fetch.interrupted /\ ~fetch.rate_limited

\* C31: the pages are requested in provider order, each once and none
\* skipped (page numbers 1, 2, 3, ... for scrobbles, offsets 0, batch,
\* 2 * batch, ... for liked songs); the number of requests never exceeds the
\* number of full pages plus one, so the loop ends; what has been fetched is
\* always a prefix of the provider's records; when the loop has run through,
\* the result is the first min(L, total) records for a limit L >= 1 and all
\* records without a limit, and unless the limit ended the loop, the last
\* request was for an empty page, for the last page number (scrobbles) or for
\* a page shorter than the batch size (liked songs).
C31_Pagination ==
    LET asked == fetch.asked
        n == Len(asked)
        h == fetch.history
        out == fetch.scrobbles
    IN /\ \A i \in 1..n : asked[i] = IF IsLiked THEN (i - 1) * PerPage ELSE i
       /\ n <= Len(h) \div PerPage + 1
       /\ out \o fetch.tracks = Take(h, Len(out) + Len(fetch.tracks))
       /\ RanThrough
          => /\ out = Limited(h, fetch.limit)
             /\ n >= 1
             /\ \/ Truthy(fetch.limit) /\ Len(out) = fetch.limit
                \/ IF IsLiked
                   THEN Len(ItemsAt(h, asked[n])) < PerPage
                   ELSE PageOf(h, asked[n]) = <<>> \/ asked[n] = TotalPages(h)

\* fetch_scrobbles(limit=3) over four scrobbles: two pages, three records
C31_Witness ==
    /\ RanThrough
    /\ ~IsLiked
    /\ fetch.limit = 3
    /\ Len(fetch.history) = 4
    /\ fetch.asked = <<1, 2>>
    /\ Len(fetch.scrobbles) = 3

\* fetch_liked_songs() over four liked songs: the third request finds an
\* empty page
C31_WitnessLiked ==
    /\ RanThrough
    /\ IsLiked
    /\ fetch.limit = None
    /\ Len(fetch.scrobbles) = 4
    /\ fetch.asked = <<0, 2, 4>>


----------------------------------------------------------------------------
(* C32 *)

\* the index entry of an enriched record of the last run, if there is one
IndexEntryOf(rec) == DictAt(index, SongKey(rec.song, source))

\* C32: after an index build, every track of the store with a non-empty
\* album that the run enriched with lyrics found and that has an index entry
\* has its album as the entry's metadata album, and the entry's document has
\* the album line right after the identity line.
C32_AlbumReachesIndex ==
    (report.cmd = "index" /\ report.exit = 0) =>
        \A r \in 1..Len(enriched) :
            ( /\ enriched[r].lyrics_found
              /\ enriched[r].song.album # ""
              /\ \E j \in 1..Len(songs) : songs[j] = enriched[r].song
              /\ DictHas(index, SongKey(enriched[r].song, source)) )
            => /\ IndexEntryOf(enriched[r]).metadata.album = enriched[r].song.album
               /\ Len(IndexEntryOf(enriched[r]).document) >= 2
               /\ IndexEntryOf(enriched[r]).document[1].line = "Song"
               /\ IndexEntryOf(enriched[r]).document[2].line = "Album"
               /\ IndexEntryOf(enriched[r]).document[2].text = enriched[r].song.album

\* what the code does instead: no entry of the index has an album, neither
\* in its metadata nor in its document
C32_NoAlbumInIndex ==
    \A i \in 1..Len(index) :
        /\ index[i][2].metadata.album = ""
        /\ \A l \in 1..Len(index[i][2].document) : index[i][2].document[l].line # "Album"

----------------------------------------------------------------------------
(* C33 *)

\* largest number of entries of the cache an index build reads
MaxEntries == 250

Digits == <<"0", "1", "2", "3", "4", "5", "6", "7", "8", "9">>

\* str(k) for k >= 0, the name of the k-th track
RECURSIVE Numeral(_)
Numeral(k) ==
    IF k < 10 THEN <<Digits[k + 1]>>
    ELSE Append(Numeral(k \div 10), Digits[(k % 10) + 1])

\* what earlier runs have found for the tracks: lyrics for every track, or
\* a mix of lyrics, instrumentals, not-found answers and answers that have
\* neither lyrics text nor the instrumental flag, or only such answers
Patterns == {"lyrics", "mixed", "synced"}

WithText ==
    [plain_lyrics |-> "la la", synced_lyrics |-> "[00:01] la la",
     instrumental |-> FALSE, lyrics_found |-> TRUE]

SyncedOnly ==
    [plain_lyrics |-> NoText, synced_lyrics |-> "[00:01] la la",
     instrumental |-> FALSE, lyrics_found |-> TRUE]

IsInstrumental ==
    [plain_lyrics |-> NoText, synced_lyrics |-> NoText,
     instrumental |-> TRUE, lyrics_found |-> TRUE]

WasNotFound ==
    [plain_lyrics |-> NoText, synced_lyrics |-> NoText,
     instrumental |-> FALSE, lyrics_found |-> FALSE]

LyricsDataOf(k, pattern) ==
    CASE pattern = "lyrics" -> WithText
      [] pattern = "synced" -> SyncedOnly
      [] OTHER -> (CASE k % 5 = 0 -> WasNotFound
                     [] k % 7 = 0 -> SyncedOnly
                     [] k % 3 = 0 -> IsInstrumental
                     [] OTHER -> WithText)

\* the cache after the tracks "1" .. "n" by "X" have been looked up and put
EntriesCache(n, pattern) ==
    [k \in 1..n |-> <<_make_key(Numeral(k), <<"X">>),
                      CacheEntry(Numeral(k), <<"X">>, LyricsDataOf(k, pattern))>>]

InitBatches ==
    /\ EnrichAtRest
    /\ \E n \in 0..MaxEntries, pattern \in Patterns :
          cacheFile = JsonFile(EntriesCache(n, pattern))
    /\ OthersAtRest

NextBatches == CmdIndex

SpecBatches == InitBatches /\ [][NextBatches]_vars

\* the entries the build has to send: one (id, document, metadata) triple
\* for every cache entry with lyrics_found that is not skipped, in order
IndexableEntries ==
    Documents(SelectSeq([k \in 1..Len(Cache) |-> Cache[k][2]],
                        LAMBDA v : v.lyrics_found))

\* the entries of one batch, matched by position
Zipped(batch) ==
    [k \in 1..Len(batch.ids) |->
        <<batch.ids[k], [document |-> batch.documents[k],
                         metadata |-> batch.metadatas[k]]>>]

\* the entries of the batches, in the order they were sent
RECURSIVE Sent(_)
Sent(batches) ==
    IF batches = <<>> THEN <<>> ELSE Zipped(Head(batches)) \o Sent(Tail(batches))

\* C33: an index build sends its entries in batches of at most 100; the
\* three lists of a batch have the same length; the batches in order, with
\* document, metadata and id matched by position, are the full entry list
\* (every entry sent exactly once); the reported indexed count is the
\* number of entries sent.
C33_UpsertChunking ==
    (report.cmd = "index" /\ report.exit = 0) =>
        /\ \A b \in 1..Len(report.batches) :
              /\ Len(report.batches[b].ids) \in 1..100
              /\ Len(report.batches[b].documents) = Len(report.batches[b].ids)
              /\ Len(report.batches[b].metadatas) = Len(report.batches[b].ids)
        /\ Sent(report.batches) = IndexableEntries
        /\ report.stats.indexed = Len(IndexableEntries)

\* a build of 250 entries was sent as two batches of 100 and one of 50
C33_Witness ==
    /\ report.cmd = "index"
    /\ report.exit = 0
    /\ Len(IndexableEntries) = 250
    /\ Len(report.batches) = 3
    /\ Len(report.batches[1].ids) = 100
    /\ Len(report.batches[2].ids) = 100
    /\ Len(report.batches[3].ids) = 50
    /\ report.stats.indexed = 250

\* a build with skipped and not-found entries in between filled one batch
\* exactly
C33_WitnessFullBatch ==
    /\ report.cmd = "index"
    /\ report.exit = 0
    /\ report.stats.skipped > 0
    /\ Len(Cache) > Len(IndexableEntries) + report.stats.skipped
    /\ Len(report.batches) = 1
    /\ Len(report.batches[1].ids) = 100

----------------------------------------------------------------------------
(* C34 *)

\* cli.py:402  the "Not found" line of the summary
NotFoundReported == Len(enriched) - counters.found - counters.instrumental

\* the loop of a run is between two tracks, or has just been left
AtLoopBoundary == pc = "top"

CompletedRun == pc = "idle" /\ outcome = "completed"

\* C34: at every loop boundary and when a run has completed, cached_hits +
\* api_lookups is the number of enriched records, found + instrumental +
\* reported not-found is that number too, and none of the three is negative.
C34_CounterConsistency ==
    (AtLoopBoundary \/ CompletedRun) =>
        /\ counters.cached_hits + counters.api_lookups = Len(enriched)
        /\ counters.found + counters.instrumental + NotFoundReported = Len(enriched)
        /\ counters.found >= 0
        /\ counters.instrumental >= 0
        /\ NotFoundReported >= 0

\* the number of enriched records that satisfy P
NumEnriched(P(_)) == Cardinality({i \in 1..Len(enriched) : P(enriched[i])})

\* at the same points the three counts are the numbers of records of the
\* three kinds
C34_CountsMatchRecords ==
    (AtLoopBoundary \/ CompletedRun) =>
        /\ counters.found =
              NumEnriched(LAMBDA r : r.lyrics_found /\ ~r.instrumental)
        /\ counters.instrumental =
              NumEnriched(LAMBDA r : r.lyrics_found /\ r.instrumental)
        /\ NotFoundReported = NumEnriched(LAMBDA r : ~r.lyrics_found)

\* a completed run of two tracks: one from the cache, one looked up; one
\* instrumental, one not found
C34_Witness ==
    /\ CompletedRun
    /\ Len(enriched) = 2
    /\ counters.cached_hits = 1
    /\ counters.api_lookups = 1
    /\ counters.instrumental = 1
    /\ counters.found = 0
    /\ NotFoundReported = 1

\* a loop boundary in the middle of a run, after a lookup
C34_WitnessBoundary ==
    /\ AtLoopBoundary
    /\ idx = 2
    /\ Len(work) = 2
    /\ counters.api_lookups = 1
    /\ counters.found = 1

----------------------------------------------------------------------------
(* C35 *)

\* largest value given to --new in the runs of SpecNewOnly
MaxNew == 2

\* cmd_lyrics_enrich --new n, without --force and without -n
StartNewOnly == \E n \in 1..MaxNew : StartRun(FALSE, None, n)

NextNewOnly ==
    \/ StartNewOnly
    \/ Filter
    \/ Lookup
    \/ ProviderReturns
    \/ BeginSave
    \/ FinishSave
    \/ AppendResult
    \/ Finish
    \/ Interrupt
    \/ InterruptFilter

SpecNewOnly == Init /\ [][NextNewOnly]_vars

\* C35: when a run without --force and with new_only set has completed, it
\* has had no cache hit and has made one provider call for every track it
\* processed, whatever the track list.
C35_NewOnlyNoCacheHits ==
    (CompletedRun /\ ~args.force /\ args.new_only # None) =>
        /\ counters.cached_hits = 0
        /\ counters.api_lookups = Len(enriched)
        /\ Len(trace.calls) = Len(enriched)

\* the same for the track lists in which no two tracks share a lookup key
\* (holds)
C35_NoCacheHitsWithoutSharedKeys ==
    (CompletedRun /\ ~args.force /\ args.new_only # None /\ NoDupKeys(songs, source)) =>
        /\ counters.cached_hits = 0
        /\ counters.api_lookups = Len(enriched)
        /\ Len(trace.calls) = Len(enriched)

----------------------------------------------------------------------------
(* C36 *)

\* the number of the three sums of get_cache_stats that count the entry
TimesCounted(v) ==
    (IF CountedWithLyrics(v) THEN 1 ELSE 0)
    + (IF CountedInstrumental(v) THEN 1 ELSE 0)
    + (IF CountedNotFound(v) THEN 1 ELSE 0)

\* C36: in every state of the cache that enrichment runs produce, an entry
\* with instrumental = true has lyrics_found = true, every entry is counted
\* in exactly one of with_lyrics, instrumental and not_found, and the total
\* of the statistics is the sum of the three.
C36_StatsPartition ==
    /\ \A i \in 1..Len(Cache) :
          /\ Cache[i][2].instrumental => Cache[i][2].lyrics_found
          /\ TimesCounted(Cache[i][2]) = 1
    /\ get_cache_stats(cacheFile).total =
          get_cache_stats(cacheFile).with_lyrics
          + get_cache_stats(cacheFile).instrumental
          + get_cache_stats(cacheFile).not_found

\* the runs have left an instrumental entry and a not-found entry
C36_Witness ==
    /\ runNo >= 1
    /\ pc = "idle"
    /\ trace.start_entries = 0
    /\ get_cache_stats(cacheFile).total = 2
    /\ get_cache_stats(cacheFile).instrumental = 1
    /\ get_cache_stats(cacheFile).not_found = 1
    /\ get_cache_stats(cacheFile).with_lyrics = 0

\* the runs have left an entry with lyrics and an instrumental entry
C36_WitnessWithLyrics ==
    /\ runNo >= 1
    /\ pc = "idle"
    /\ get_cache_stats(cacheFile).total = 2
    /\ get_cache_stats(cacheFile).instrumental = 1
    /\ get_cache_stats(cacheFile).with_lyrics = 1

----------------------------------------------------------------------------
(* C37 *)

\* the ids of the entries an index build has sent, in order
BatchIds(batches) == [k \in 1..Len(Sent(batches)) |-> Sent(batches)[k][1]]

\* a track as the cache and the index name it
Named(song, src) ==
    [track_name |-> song.name, artist_name |-> _get_artist_name(song, src)]

\* C37: every cache entry is stored under the key of its own track_name and
\* artist_name, and the id the index build computes for it is that key;
\* every index entry is stored under the key of the names in its metadata;
\* the ids sent in one index build are pairwise distinct; a track of the
\* store has the same key in deduplication, in the cache and in the index.
C37_KeyAgreement ==
    /\ \A i \in 1..Len(Cache) :
          /\ Cache[i][1] = _make_key(Cache[i][2].track_name, Cache[i][2].artist_name)
          /\ IndexId(Cache[i][2]) = Cache[i][1]
    /\ \A i \in 1..Len(index) :
          index[i][1] = _make_key(index[i][2].metadata.track_name,
                                  index[i][2].metadata.artist_name)
    /\ report.cmd = "index" => NoDuplicates(BatchIds(report.batches))
    /\ \A j \in 1..Len(songs) :
          /\ DedupKey(songs[j], source) = SongKey(songs[j], source)
          /\ IndexId(Named(songs[j], source)) = SongKey(songs[j], source)

\* the track " a" by "x " of the store was looked up and indexed: its cache
\* key and its index id are "a||x"
C37_Witness ==
    /\ report.cmd = "index"
    /\ report.exit = 0
    /\ \E j \in 1..Len(songs) : songs[j].name = <<" ", "a">>
    /\ \E i \in 1..Len(Cache) :
          /\ Cache[i][2].track_name = <<" ", "a">>
          /\ Cache[i][2].artist_name = <<"x", " ">>
          /\ Cache[i][1] = <<"a", "|", "|", "x">>
    /\ DictHas(index, <<"a", "|", "|", "x">>)
    /\ BatchIds(report.batches)[1] = <<"a", "|", "|", "x">>


====
